---- MODULE Spec2Model ----
(***************************************************************************)
(* Verification model of the VoxelEngine core: terrain generation, chunk   *)
(* streaming (ChunkManager), path request queue (PathfindingManager) and   *)
(* the A* search (Pathfinder).                                             *)
(*                                                                         *)
(* Noise values (simplex noise mapped to [0,1]) are modelled as integer    *)
(* percentages 0..100.  World sizes are scaled down by the bounds below.   *)
(***************************************************************************)
EXTENDS Integers, Sequences, FiniteSets, TLC

(***************************************************************************)
(* Bounds of the model (scaled-down sizes)                                 *)
(***************************************************************************)
\* horizontal edge length of a chunk (ChunkManager.chunkSize, 16 in the code)
ChunkSize == 2
\* column height of the generator configuration (DEFAULT_CONFIG.maxHeight, 256 in the code)
MaxHeight == 14
\* column height of the configuration the running world uses (cfg.maxHeight)
WorldHeight == 6
\* chunk edge passed to generateChunk when the generator is exercised on its own
GenSize == 3
\* sea level (DEFAULT_CONFIG.seaLevel, 48 in the code)
SeaLevel == 2
\* load distance in chunks (ChunkManager.renderDistance, 10 in the code)
RenderDistance == 1

(***************************************************************************)
(* VoxelType and Biome enumerations                                        *)
(***************************************************************************)
AIR == 0
WATER == 1
SAND == 2
GRASS == 3
DIRT == 4
STONE == 5
SNOW == 6
TRUNK == 7
LEAVES == 8
LEAVES_AUTUMN == 9
LEAVES_YOUNG == 10
LEAVES_CHERRY == 11
CLOUD == 12
BEDROCK == 13
VoxelType == AIR..BEDROCK

Biome == {"OCEAN", "BEACH", "PLAINS", "DESERT", "FOREST", "MOUNTAIN", "SNOW"}

\* biomeSurface: per biome (top, filler, base thickness)
biomeSurface ==
  [b \in Biome |->
     CASE b = "OCEAN"    -> [top |-> SAND,  filler |-> SAND,  thickness |-> 8]
       [] b = "BEACH"    -> [top |-> SAND,  filler |-> SAND,  thickness |-> 8]
       [] b = "DESERT"   -> [top |-> SAND,  filler |-> SAND,  thickness |-> 5]
       [] b = "PLAINS"   -> [top |-> GRASS, filler |-> DIRT,  thickness |-> 5]
       [] b = "FOREST"   -> [top |-> GRASS, filler |-> DIRT,  thickness |-> 6]
       [] b = "MOUNTAIN" -> [top |-> STONE, filler |-> STONE, thickness |-> 1]
       [] b = "SNOW"     -> [top |-> SNOW,  filler |-> SNOW,  thickness |-> 1]]

(***************************************************************************)
(* Small arithmetic helpers                                                *)
(***************************************************************************)
Abs(n) == IF n < 0 THEN -n ELSE n
Max(a, b) == IF a >= b THEN a ELSE b
Min(a, b) == IF a <= b THEN a ELSE b

\* Math.floor(a / b) for b > 0 (TLA+ \div rounds toward minus infinity)
FloorDiv(a, b) == a \div b

Cols(size) == 0..(size - 1)
\* the y indices of a grid built with config cfg
Ys(cfg) == 0..(cfg.maxHeight - 1)

\* TerrainConfig: the generator alone, and the generator of the running world
GenConfig == [maxHeight |-> MaxHeight, seaLevel |-> SeaLevel]
WorldConfig == [maxHeight |-> WorldHeight, seaLevel |-> SeaLevel]

(***************************************************************************)
(* TerrainGenerator                                                        *)
(*                                                                         *)
(* The noise-derived quantities of one generateChunk call are collected in *)
(* an oracle record o:                                                     *)
(*   o.raw[x][z]      Math.floor(baseHeight + mountain + ocean + detail)   *)
(*   o.temperature, o.rainfall, o.deco [x][z]   noise percentages          *)
(*   o.tree[x][z]     [treeNoise, trunkNoise, canopyNoise] percentages     *)
(*   o.treeType       treeNoiseType thousandths, o.leaf  leafNoise percent *)
(*   o.caves          sequence of cave walks                               *)
(***************************************************************************)

\* computeTerrainProperties: clamp of the final height
ClampHeight(cfg, raw) ==
  LET h1 == IF raw > cfg.maxHeight - 1 THEN cfg.maxHeight - 1 ELSE raw
  IN  IF h1 < 1 THEN 1 ELSE h1

generateHeightMap(cfg, o, size) ==
  [x \in Cols(size) |-> [z \in Cols(size) |->
     [height |-> ClampHeight(cfg, o.raw[x][z]),
      temperature |-> o.temperature[x][z],
      rainfall |-> o.rainfall[x][z]]]]

getBiome(cfg, height, temperature, rainfall) ==
  IF height <= cfg.seaLevel THEN "OCEAN"
  ELSE IF height <= cfg.seaLevel + 4 THEN "BEACH"
  ELSE IF height > cfg.seaLevel + 140 \/ temperature < 30 THEN "SNOW"
  ELSE IF height > cfg.seaLevel + 100 THEN "MOUNTAIN"
  ELSE IF temperature > 80 /\ rainfall < 30 THEN "DESERT"
  ELSE IF rainfall > 55 THEN "FOREST"
  ELSE "PLAINS"

initializeChunk(cfg, size) ==
  [x \in Cols(size) |-> [y \in Ys(cfg) |-> [z \in Cols(size) |-> AIR]]]

terrainShaping(cfg, data, heightMap, size) ==
  [x \in Cols(size) |-> [y \in Ys(cfg) |-> [z \in Cols(size) |->
     IF y = 0 THEN BEDROCK
     ELSE IF y >= 1 /\ y <= heightMap[x][z].height THEN STONE
     ELSE data[x][y][z]]]]

waterFilling(cfg, data, heightMap, size) ==
  [x \in Cols(size) |-> [y \in Ys(cfg) |-> [z \in Cols(size) |->
     LET height == heightMap[x][z].height
     IN  IF height < cfg.seaLevel /\ y >= height + 1 /\ y <= cfg.seaLevel /\ y < cfg.maxHeight
         THEN WATER
         ELSE data[x][y][z]]]]

\* getSurfaceDecoration: Math.floor(mapNoise(n, t - 1, t + 1)) with n = noise/100
getSurfaceDecoration(noise, biome) ==
  LET base == biomeSurface[biome]
      variation == (base.thickness - 1) + FloorDiv(2 * noise, 100)
  IN  [top |-> base.top, filler |-> base.filler, thickness |-> Max(1, variation)]

surfaceDecoration(cfg, data, heightMap, o, size) ==
  [x \in Cols(size) |-> [y \in Ys(cfg) |-> [z \in Cols(size) |->
     LET hm == heightMap[x][z]
         height == hm.height
         biome == getBiome(cfg, height, hm.temperature, hm.rainfall)
         deco == getSurfaceDecoration(o.deco[x][z], biome)
         start == Max(0, height - deco.thickness + 1)
     IN  IF height < 0 \/ height >= cfg.maxHeight THEN data[x][y][z]
         ELSE IF y >= start /\ y <= height
              THEN (IF y = height THEN deco.top ELSE deco.filler)
              ELSE data[x][y][z]]]]


\* number of caves before the biome adjustment (DEFAULT_CONFIG.caveCount, 3 in the code)
CaveCount == 1

getCaveCountForBiome(biome) ==
  CASE biome = "MOUNTAIN" -> CaveCount + 2
    [] biome = "DESERT"   -> Max(1, CaveCount - 1)
    [] OTHER              -> CaveCount

\* spawnTrees: highest non-AIR voxel of a column, -1 when the column is empty
TopY(cfg, data, x, z) ==
  LET S == {y \in Ys(cfg) : data[x][y][z] # AIR}
  IN  IF S = {} THEN -1 ELSE CHOOSE y \in S : \A y2 \in S : y2 <= y

\* spawnTrees: body of the column loop for column (x, z)
SpawnTreeAt(cfg, data, heightMap, o, size, x, z) ==
  LET hm == heightMap[x][z]
      biome == getBiome(cfg, hm.height, hm.temperature, hm.rainfall)
      topY == TopY(cfg, data, x, z)
      t == o.tree[x][z]
      trunkHeight == 4 + FloorDiv(7 * t.trunkNoise, 100)
      canopyHeight == 2 + FloorDiv(2 * t.canopyNoise, 100)
      leaf == IF trunkHeight < 6 THEN LEAVES_YOUNG
              ELSE IF trunkHeight > 9 THEN LEAVES_AUTUMN
              ELSE IF o.treeType < 120 /\ o.treeType > 100 THEN LEAVES_CHERRY
              ELSE IF biome = "PLAINS" THEN LEAVES_YOUNG ELSE LEAVES
      Radius(layer) == IF layer = 0 THEN 2 ELSE 1
      InCanopy(nx, y, nz) ==
        \E layer \in 0..(canopyHeight - 1) :
           /\ y = topY + trunkHeight + layer
           /\ Abs(nx - x) <= Radius(layer) /\ Abs(nz - z) <= Radius(layer)
           /\ ~(o.leaf[nx - x][nz - z] < 15)
  IN  IF biome # "PLAINS" /\ biome # "FOREST" THEN data
      ELSE IF topY = -1 THEN data
      ELSE IF data[x][topY][z] # GRASS THEN data
      ELSE IF t.treeNoise > 15 THEN data
      ELSE IF topY + trunkHeight + 2 >= cfg.maxHeight THEN data
      ELSE [nx \in Cols(size) |-> [y \in Ys(cfg) |-> [nz \in Cols(size) |->
              IF nx = x /\ nz = z /\ y >= topY + 1 /\ y <= topY + trunkHeight
              THEN TRUNK
              ELSE IF data[nx][y][nz] = AIR /\ InCanopy(nx, y, nz) THEN leaf
              ELSE data[nx][y][nz]]]]

RECURSIVE SpawnTreesFrom(_, _, _, _, _, _)
\* columns are visited x-major, z-minor; i is the column index x * size + z
SpawnTreesFrom(cfg, data, heightMap, o, size, i) ==
  IF i >= size * size THEN data
  ELSE SpawnTreesFrom(cfg, SpawnTreeAt(cfg, data, heightMap, o, size, i \div size, i % size),
                      heightMap, o, size, i + 1)

spawnTrees(cfg, data, heightMap, o, size) == SpawnTreesFrom(cfg, data, heightMap, o, size, 0)

\* the sphere as it would be carved if WATER were not spared
CarveSphere_ThroughWater(cfg, data, size, xi, yi, zi, r2) ==
  [nx \in Cols(size) |-> [ny \in Ys(cfg) |-> [nz \in Cols(size) |->
     LET dx == nx - xi
         dy == ny - yi
         dz == nz - zi
     IN  IF dx * dx + dy * dy + dz * dz <= r2 /\ data[nx][ny][nz] # BEDROCK
         THEN AIR
         ELSE data[nx][ny][nz]]]]

\* carveCaves: sphere carved around (xi, yi, zi); r2 = floor(caveRadius^2)
CarveSphere(cfg, data, size, xi, yi, zi, r2) ==
  [nx \in Cols(size) |-> [ny \in Ys(cfg) |-> [nz \in Cols(size) |->
     LET dx == nx - xi
         dy == ny - yi
         dz == nz - zi
     IN  IF dx * dx + dy * dy + dz * dz <= r2
            /\ data[nx][ny][nz] # WATER /\ data[nx][ny][nz] # BEDROCK
         THEN AIR
         ELSE data[nx][ny][nz]]]]

RECURSIVE CaveWalk(_, _, _, _, _, _)
\* one cave: steps i..length of the random walk, pos = floored position
CaveWalk(cfg, data, size, cave, pos, i) ==
  IF i > cave.length THEN data
  ELSE IF pos[1] < 1 \/ pos[1] >= size - 1 \/ pos[2] < 1 \/ pos[2] >= cfg.maxHeight - 1
          \/ pos[3] < 1 \/ pos[3] >= size - 1
       THEN data
       ELSE LET st == cave.steps[i]
            IN  CaveWalk(cfg, CarveSphere(cfg, data, size, pos[1], pos[2], pos[3], st.r2),
                         size, cave,
                         <<pos[1] + st.d[1], pos[2] + st.d[2], pos[3] + st.d[3]>>,
                         i + 1)

RECURSIVE CarveFrom(_, _, _, _, _, _)
CarveFrom(cfg, data, size, o, caves, c) ==
  IF c > caves \/ c > Len(o.caves) THEN data
  ELSE LET cave == o.caves[c]
           startY == IF cave.start[2] < 1 THEN 1 ELSE cave.start[2]
       IN  CarveFrom(cfg, CaveWalk(cfg, data, size, cave, <<cave.start[1], startY, cave.start[3]>>, 1),
                     size, o, caves, c + 1)

carveCaves(cfg, data, size, o, caves) == CarveFrom(cfg, data, size, o, caves, 1)

\* generateChunk: the stages in the order of the code, innermost first; the height
\* map and each stage's grid are values before the next stage reads them
generateChunk(cfg, o, size) ==
  CHOOSE data \in
    {LET center == heightMap[size \div 2][size \div 2]
         chunkBiome == getBiome(cfg, center.height, center.temperature, center.rainfall)
         caves == getCaveCountForBiome(chunkBiome)
     IN  carveCaves(cfg, data4, size, o, caves) :
       <<heightMap, data4>> \in
         {<<hm, spawnTrees(cfg, data3, hm, o, size)>> :
            <<hm, data3>> \in
              {<<hm, surfaceDecoration(cfg, data2, hm, o, size)>> :
                 <<hm, data2>> \in
                   {<<hm, waterFilling(cfg, data1, hm, size)>> :
                      <<hm, data1>> \in
                        {<<hm, terrainShaping(cfg, data0, hm, size)>> :
                           hm \in {generateHeightMap(cfg, o, size)},
                           data0 \in {initializeChunk(cfg, size)}}}}}} : TRUE


(***************************************************************************)
(* The world of the running game: TerrainGenerator("CanniWorld") with the  *)
(* default config.  The seeded noise is a fixed function of its arguments; *)
(* WorldNoise stands for it.                                               *)
(***************************************************************************)
VARIABLES
  evictedGrid   \* key -> grid of the unedited chunk as deleteChunks last dropped it

\* the noise as it would be from a source the seed does not fix: its values
\* change while the world is streamed
WorldNoise_Unseeded(channel, a, b) ==
  (channel * 37 + a * 41 + b * 59 + a * b * 7 + Cardinality(DOMAIN evictedGrid)) % 100

WorldNoise(channel, a, b) == (channel * 37 + a * 41 + b * 59 + a * b * 7) % 100

WorldOracle(chunkX, chunkZ, size) ==
  [raw |-> [x \in Cols(size) |-> [z \in Cols(size) |->
              (WorldNoise(1, x + chunkX * size, z + chunkZ * size) % (WorldHeight + 2)) - 1]],
   temperature |-> [x \in Cols(size) |-> [z \in Cols(size) |->
              WorldNoise(2, x + chunkX * size, z + chunkZ * size)]],
   rainfall |-> [x \in Cols(size) |-> [z \in Cols(size) |->
              WorldNoise(3, x + chunkX * size, z + chunkZ * size)]],
   deco |-> [x \in Cols(size) |-> [z \in Cols(size) |->
              WorldNoise(4, (x + chunkX * size) * 20, (z + chunkZ * size) * 20)]],
   tree |-> [x \in Cols(size) |-> [z \in Cols(size) |->
              [treeNoise |-> WorldNoise(5, x, z),
               trunkNoise |-> WorldNoise(6, x, z),
               canopyNoise |-> WorldNoise(7, x, z)]]],
   treeType |-> WorldNoise(8, chunkX, chunkZ) * 10,
   leaf |-> [dx \in -2..2 |-> [dz \in -2..2 |-> WorldNoise(9, dx, dz)]],
   caves |-> <<>>]

(***************************************************************************)
(* Chunk                                                                   *)
(***************************************************************************)
\* new Chunk(x, z, size, terrainGenerator)
NewChunk(x, z, size) ==
  [x |-> x, z |-> z, size |-> size,
   terrainData |-> generateChunk(WorldConfig, WorldOracle(x, z, size), size),
   modified |-> FALSE]

\* Chunk.updateVoxel: bounds-checked write, marks the chunk modified
updateVoxel(chunk, localX, y, localZ, newType) ==
  IF localX < 0 \/ localX >= chunk.size \/ localZ < 0 \/ localZ >= chunk.size
     \/ y < 0 \/ y >= Cardinality(DOMAIN chunk.terrainData[0])
  THEN chunk
  ELSE [chunk EXCEPT !.terrainData[localX][y][localZ] = newType,
                     !.modified = TRUE]

(***************************************************************************)
(* ChunkManager                                                            *)
(***************************************************************************)
\* renderDistanceDelete - renderDistance in the code (13 - 10)
DeleteMargin == 3
RenderDistanceDelete == RenderDistance + DeleteMargin
\* initial value and reload value of loadCounter
LoadCounterReset == 2

VARIABLES
  chunks,             \* Map key -> Chunk (object reference)
  modifiedChunks,     \* Map key -> Chunk (object reference)
  heap,               \* the Chunk objects, by reference
  loadingChunks,
  loadingChunksKeys,  \* sequence of chunk coordinates <<x, z>>
  loadCounter,
  firstChunksLoaded,
  playerChunk,        \* chunk coordinate of the observer in the last update
  loadedFromCache     \* observation: key of the chunk the last update restored from modifiedChunks

cmVars == <<chunks, modifiedChunks, heap, loadingChunks, loadingChunksKeys,
            loadCounter, firstChunksLoaded, playerChunk, loadedFromCache>>

\* getChunkKey: `${x},${z}`; the string determines the pair and vice versa
getChunkKey(x, z) == <<x, z>>

Put(f, k, v) == [a \in DOMAIN f \cup {k} |-> IF a = k THEN v ELSE f[a]]
Remove(f, S) == [a \in DOMAIN f \ S |-> f[a]]
Range(f) == {f[a] : a \in DOMAIN f}

\* the manager's fields as one record, threaded through the private methods
Manager ==
  [chunks |-> chunks, modifiedChunks |-> modifiedChunks, heap |-> heap,
   loadingChunks |-> loadingChunks, loadingChunksKeys |-> loadingChunksKeys,
   loadCounter |-> loadCounter, firstChunksLoaded |-> firstChunksLoaded,
   loadedFromCache |-> <<>>]

\* garbage collection: objects referenced by neither map disappear
Collect(m) ==
  [m EXCEPT !.heap = [id \in (Range(m.chunks) \cup Range(m.modifiedChunks)) |-> m.heap[id]]]

\* a fresh object reference
NewRef(m) == CHOOSE id \in 1..(Cardinality(DOMAIN m.heap) + 1) : id \notin DOMAIN m.heap

\* deleteChunks as it would be if it evicted beyond the load distance
deleteChunks_AtRenderDistance(m, currentChunkX, currentChunkZ) ==
  IF m.loadingChunks THEN m
  ELSE LET far == {key \in DOMAIN m.chunks :
                     LET chunk == m.heap[m.chunks[key]]
                     IN  Abs(chunk.x - currentChunkX) > RenderDistance
                         \/ Abs(chunk.z - currentChunkZ) > RenderDistance}
           keep == {key \in far : m.heap[m.chunks[key]].modified}
       IN  [m EXCEPT !.modifiedChunks =
                         [key \in DOMAIN m.modifiedChunks \cup keep |->
                            IF key \in keep THEN m.chunks[key] ELSE m.modifiedChunks[key]],
                     !.chunks = Remove(m.chunks, far)]

\* deleteChunks as it would be if evicted chunks were never kept in modifiedChunks
deleteChunks_DropsEdited(m, currentChunkX, currentChunkZ) ==
  IF m.loadingChunks THEN m
  ELSE LET far == {key \in DOMAIN m.chunks :
                     LET chunk == m.heap[m.chunks[key]]
                     IN  Abs(chunk.x - currentChunkX) > RenderDistanceDelete
                         \/ Abs(chunk.z - currentChunkZ) > RenderDistanceDelete}
       IN  [m EXCEPT !.chunks = Remove(m.chunks, far)]

deleteChunks(m, currentChunkX, currentChunkZ) ==
  IF m.loadingChunks THEN m
  ELSE LET far == {key \in DOMAIN m.chunks :
                     LET chunk == m.heap[m.chunks[key]]
                     IN  Abs(chunk.x - currentChunkX) > RenderDistanceDelete
                         \/ Abs(chunk.z - currentChunkZ) > RenderDistanceDelete}
           keep == {key \in far : m.heap[m.chunks[key]].modified}
       IN  [m EXCEPT !.modifiedChunks =
                         [key \in DOMAIN m.modifiedChunks \cup keep |->
                            IF key \in keep THEN m.chunks[key] ELSE m.modifiedChunks[key]],
                     !.chunks = Remove(m.chunks, far)]

\* squared distance used by the sort comparator
DistSq(k, currentChunkX, currentChunkZ) ==
  (k[1] - currentChunkX) * (k[1] - currentChunkX) + (k[2] - currentChunkZ) * (k[2] - currentChunkZ)

\* Array.prototype.sort with comparator da - db (stable: ties keep their order)
SortByDistance(keys, cx, cz) ==
  LET n == Len(keys)
      Before(i, j) == \/ DistSq(keys[i], cx, cz) < DistSq(keys[j], cx, cz)
                      \/ (DistSq(keys[i], cx, cz) = DistSq(keys[j], cx, cz) /\ i < j)
      Rank(i) == Cardinality({j \in 1..n : Before(j, i)}) + 1
  IN  [r \in 1..n |-> keys[CHOOSE i \in 1..n : Rank(i) = r]]

\* the double loop of SetChunksToLoad: x outer, z inner
ScanKeys(m, currentChunkX, currentChunkZ) ==
  LET w == 2 * RenderDistance + 1
      all == [i \in 1..(w * w) |->
                <<currentChunkX - RenderDistance + ((i - 1) \div w),
                  currentChunkZ - RenderDistance + ((i - 1) % w)>>]
  IN  SelectSeq(all, LAMBDA k : getChunkKey(k[1], k[2]) \notin DOMAIN m.chunks)

SetChunksToLoad(m, currentChunkX, currentChunkZ) ==
  IF m.loadingChunks THEN m
  ELSE CHOOSE out \in
         {[m EXCEPT !.loadingChunksKeys = keys, !.loadingChunks = Len(keys) > 0] :
            keys \in {SortByDistance(scanned, currentChunkX, currentChunkZ) :
                        scanned \in {ScanKeys(m, currentChunkX, currentChunkZ)}}} : TRUE

\* loadNextChunk as it would be if the end of a batch left loadingChunks set
loadNextChunk_KeepsLoading(m) ==
  IF ~m.loadingChunks THEN m
  ELSE IF Len(m.loadingChunksKeys) = 0
       THEN [m EXCEPT !.firstChunksLoaded = TRUE]
       ELSE LET chunkKey == Head(m.loadingChunksKeys)
                key == getChunkKey(chunkKey[1], chunkKey[2])
                m1 == [m EXCEPT !.loadingChunksKeys = Tail(m.loadingChunksKeys)]
            IN  IF key \in DOMAIN m1.modifiedChunks
                THEN [m1 EXCEPT !.chunks = Put(m1.chunks, key, m1.modifiedChunks[key]),
                                !.loadedFromCache = <<key>>]
                ELSE LET ref == NewRef(m1)
                     IN  [m1 EXCEPT !.heap = Put(m1.heap, ref,
                                                 NewChunk(chunkKey[1], chunkKey[2], ChunkSize)),
                                    !.chunks = Put(m1.chunks, key, ref)]

loadNextChunk(m) ==
  IF ~m.loadingChunks THEN m
  ELSE IF Len(m.loadingChunksKeys) = 0
       THEN [m EXCEPT !.loadingChunks = FALSE, !.firstChunksLoaded = TRUE]
       ELSE LET chunkKey == Head(m.loadingChunksKeys)
                key == getChunkKey(chunkKey[1], chunkKey[2])
                m1 == [m EXCEPT !.loadingChunksKeys = Tail(m.loadingChunksKeys)]
            IN  IF key \in DOMAIN m1.modifiedChunks
                THEN [m1 EXCEPT !.chunks = Put(m1.chunks, key, m1.modifiedChunks[key]),
                                !.loadedFromCache = <<key>>]
                ELSE LET ref == NewRef(m1)
                     IN  [m1 EXCEPT !.heap = Put(m1.heap, ref,
                                                 NewChunk(chunkKey[1], chunkKey[2], ChunkSize)),
                                    !.chunks = Put(m1.chunks, key, ref)]

\* update as it would be if it loaded on every call and twice
update_LoadsTwice(m, px, pz) ==
  LET currentChunkX == FloorDiv(px, ChunkSize)
      currentChunkZ == FloorDiv(pz, ChunkSize)
      m1 == deleteChunks(m, currentChunkX, currentChunkZ)
      m2 == SetChunksToLoad(m1, currentChunkX, currentChunkZ)
      m3 == [loadNextChunk(loadNextChunk(m2)) EXCEPT !.loadCounter = LoadCounterReset]
  IN  Collect(m3)

\* ChunkManager.update(playerPosition), as a function of the manager record
update(m, px, pz) ==
  LET currentChunkX == FloorDiv(px, ChunkSize)
      currentChunkZ == FloorDiv(pz, ChunkSize)
  IN  CHOOSE out \in
        {Collect(m3) :
           m3 \in {IF m2.loadCounter - 1 <= 0
                   THEN [loadNextChunk(m2) EXCEPT !.loadCounter = LoadCounterReset]
                   ELSE [m2 EXCEPT !.loadCounter = m2.loadCounter - 1] :
                     m2 \in {SetChunksToLoad(m1, currentChunkX, currentChunkZ) :
                               m1 \in {deleteChunks(m, currentChunkX, currentChunkZ)}}}} : TRUE

SetManager(m) ==
  /\ chunks' = m.chunks
  /\ modifiedChunks' = m.modifiedChunks
  /\ heap' = m.heap
  /\ loadingChunks' = m.loadingChunks
  /\ loadingChunksKeys' = m.loadingChunksKeys
  /\ loadCounter' = m.loadCounter
  /\ firstChunksLoaded' = m.firstChunksLoaded
  /\ loadedFromCache' = m.loadedFromCache

\* getChunkAt: the active chunk or else the cached modified chunk
getChunkAt(m, chunkX, chunkZ) ==
  LET key == getChunkKey(chunkX, chunkZ)
  IN  IF key \in DOMAIN m.chunks THEN <<m.chunks[key]>>
      ELSE IF key \in DOMAIN m.modifiedChunks THEN <<m.modifiedChunks[key]>>
      ELSE <<>>


(***************************************************************************)
(* Observations used to state the claims about edits                       *)
(***************************************************************************)
VARIABLES
  editedGrid,   \* key -> voxel grid of that chunk right after its last edit
  restores      \* number of loads served from modifiedChunks so far (capped)

obsVars == <<editedGrid, restores>>

\* cap of the restores counter
MaxRestores == 2

(***************************************************************************)
(* State of the other components                                           *)
(***************************************************************************)
VARIABLES
  genOracle,    \* noise-derived inputs of the last generateChunk call
  genData       \* the grid the last generateChunk call returned

genVars == <<genOracle, genData>>

VARIABLES
  queue,          \* PathfindingManager.queue: requests [id, start, goal] in arrival order
  processing,     \* PathfindingManager.processing
  settled,        \* request id -> how its promise was settled
  issued,         \* number of requestPath calls so far
  missingChunks,  \* Pathfinder.missingChunks
  requested,      \* chunk keys handed to ChunkManager.requestChunkLoad and not yet loaded
  searches        \* one record per findPath call, in call order

pathVars == <<queue, processing, settled, issued, missingChunks, requested, searches>>

VARIABLES
  walkChunks,     \* observer chunks of the update calls since the observer last left
                  \* a pair of adjacent chunks
  evictedInWalk,  \* keys evicted by those calls
  reloadedInWalk  \* keys among them that a later one of those calls loaded again

walkVars == <<walkChunks, evictedInWalk, reloadedInWalk>>

VARIABLES
  position,        \* Player.position, in millionths of a voxel
  velocity,        \* Player.velocity, in millionths of a voxel per millisecond
  onFloor,         \* Player.onFloor
  onWater,         \* Player.onWater
  resolverCalls,   \* calls of processCollisionsAndEnvironment in the last update
  stillColliding   \* what the last of those calls returned

physVars == <<position, velocity, onFloor, onWater, resolverCalls, stillColliding>>

VARIABLES
  meshChunk,   \* a Chunk with its mesh: terrainData, modified, the mesh object and
               \* the geometry that object holds
  lastEdit     \* the arguments of the last updateVoxel call and the value it found

meshVars == <<meshChunk, lastEdit>>

VARIABLES
  spawnResult   \* what the last closestFreeSpace call returned, <<>> before the first

spawnVars == <<spawnResult>>

VARIABLES
  playing,       \* Player.playing
  moveForward,   \* Controls.moveForward
  frameAt,       \* the call of the animation frame that runs next
  firstQueue,    \* the keys the first SetChunksToLoad call put in the load queue
  activated,     \* the keys loadNextChunk has made active
  wasLoaded      \* whether isWorldLoaded() has been true at the end of a world update

bootVars == <<playing, moveForward, frameAt, firstQueue, activated, wasLoaded>>

BootIdle ==
  /\ playing = FALSE
  /\ moveForward = FALSE
  /\ frameAt = "controls"
  /\ firstQueue = {}
  /\ activated = {}
  /\ wasLoaded = FALSE

VARIABLES
  mobs,       \* mob -> the fields of that Mob that update reads and writes
  owner,      \* request id -> the mob whose update submitted it
  reacted,    \* ids of the requests whose then/catch callback has run
  mobThrew    \* mobs whose update call raised a TypeError

mobVars == <<mobs, owner, reacted, mobThrew>>

MobIdle ==
  /\ mobs = <<>>
  /\ owner = <<>>
  /\ reacted = {}
  /\ mobThrew = {}

VARIABLES
  sampleColumn,   \* the voxels of the column of the chunk the foot is in, by y
  sampleFoot,     \* footPos.y of the last environment sampling, <<>> before the first
  sampleReads     \* the y indices that sampling read from terrainData[localX]

sampleVars == <<sampleColumn, sampleFoot, sampleReads>>

SampleIdle ==
  /\ sampleColumn = <<>>
  /\ sampleFoot = <<>>
  /\ sampleReads = <<>>

regenVars == <<evictedGrid>>

RegenIdle == evictedGrid = <<>>

\* what eviction and regeneration leave alone
outsideRegen == <<obsVars, genVars, pathVars, walkVars, physVars, meshVars, spawnVars, bootVars, mobVars, sampleVars>>

\* what the start-up frames leave alone
outsideBoot == <<obsVars, genVars, pathVars, walkVars, meshVars, spawnVars, regenVars, mobVars, sampleVars>>

\* what the chunk streaming actions leave alone
outsideChunkManager == <<genVars, pathVars, walkVars, physVars, meshVars, spawnVars, regenVars, bootVars, mobVars, sampleVars>>
\* what the generator actions leave alone
outsideGenerator == <<cmVars, obsVars, pathVars, walkVars, physVars, meshVars, spawnVars, regenVars, bootVars, mobVars, sampleVars>>
\* what the path actions leave alone
outsidePath == <<cmVars, obsVars, genVars, walkVars, physVars, meshVars, spawnVars, regenVars, bootVars, mobVars, sampleVars>>
\* what neither the path actions nor the chunk manager touch
outsidePathAndChunks == <<obsVars, genVars, walkVars, physVars, meshVars, spawnVars, regenVars, bootVars, mobVars, sampleVars>>
\* what the walk of the observer leaves alone
outsideWalk == <<obsVars, genVars, pathVars, physVars, meshVars, spawnVars, regenVars, bootVars, mobVars, sampleVars>>
\* what the player's physics leaves alone
outsidePhysics == <<cmVars, obsVars, genVars, pathVars, walkVars, meshVars, spawnVars, regenVars, bootVars, mobVars, sampleVars>>
\* what the edits of a chunk's voxels leave alone
outsideMesh == <<cmVars, obsVars, genVars, pathVars, walkVars, physVars, spawnVars, regenVars, bootVars, mobVars, sampleVars>>

Origin == [x |-> 0, y |-> 0, z |-> 0]

\* what a search for a free position leaves alone
outsideSpawn == <<cmVars, obsVars, genVars, pathVars, walkVars, physVars, meshVars, regenVars, bootVars, mobVars, sampleVars>>

SpawnIdle == spawnResult = <<>>

MeshIdle ==
  /\ meshChunk = <<>>
  /\ lastEdit = <<>>

PhysIdle ==
  /\ position = Origin
  /\ velocity = Origin
  /\ onFloor = FALSE
  /\ onWater = FALSE
  /\ resolverCalls = 0
  /\ stillColliding = FALSE

WalkIdle ==
  /\ walkChunks = {}
  /\ evictedInWalk = {}
  /\ reloadedInWalk = {}

PathIdle ==
  /\ queue = <<>>
  /\ processing = FALSE
  /\ settled = <<>>
  /\ issued = 0
  /\ missingChunks = FALSE
  /\ requested = {}
  /\ searches = <<>>

GenIdle ==
  /\ genOracle = <<>>
  /\ genData = <<>>

ChunkManagerInit ==
  /\ chunks = <<>>
  /\ modifiedChunks = <<>>
  /\ heap = <<>>
  /\ loadingChunks = FALSE
  /\ loadingChunksKeys = <<>>
  /\ loadCounter = LoadCounterReset
  /\ firstChunksLoaded = FALSE
  /\ playerChunk = <<0, 0>>
  /\ loadedFromCache = <<>>
  /\ editedGrid = <<>>
  /\ restores = 0

\* observer positions offered to update: voxel coordinates in chunk 0 and in a
\* chunk from which everything loaded around chunk 0 is beyond the delete distance
FarChunk == RenderDistanceDelete + RenderDistance + 1
ObserverXs == {0, FarChunk * ChunkSize + 1}
ObserverZs == {0}

\* voxels the edit layer may hit (global coordinates): the surface voxel of
\* column (0, 0) as generated
EditVoxels == {<<0, TopY(WorldConfig, NewChunk(0, 0, ChunkSize).terrainData, 0, 0), 0>>}
\* face normals of the hit face
FaceNormals == {<<0, 1, 0>>}

\* InputManager.getChunkAndLocalCoords: chunk reference and local coordinates
getChunkAndLocalCoords(m, gx, gz) ==
  LET ref == getChunkAt(m, FloorDiv(gx, ChunkSize), FloorDiv(gz, ChunkSize))
  IN  IF ref = <<>> THEN <<>>
      ELSE LET chunk == m.heap[ref[1]]
               localX == gx - chunk.x * chunk.size
               localZ == gz - chunk.z * chunk.size
           IN  IF localX < 0 \/ localX >= chunk.size \/ localZ < 0 \/ localZ >= chunk.size
               THEN <<>>
               ELSE <<[ref |-> ref[1], localX |-> localX, localZ |-> localZ]>>

\* the raycast hits a face of a non-AIR voxel of a chunk whose mesh is in the scene
RaycastHits(v) ==
  LET key == getChunkKey(FloorDiv(v[1], ChunkSize), FloorDiv(v[3], ChunkSize))
  IN  /\ key \in DOMAIN chunks
      /\ v[2] \in Ys(WorldConfig)
      /\ heap[chunks[key]].terrainData[v[1] - key[1] * ChunkSize][v[2]][v[3] - key[2] * ChunkSize] # AIR

\* the edit of voxel (gx, y, gz) of the chunk found by getChunkAndLocalCoords
ApplyEdit(t, gx, y, gz, newType) ==
  LET chunk2 == updateVoxel(heap[t.ref], t.localX, y, t.localZ, newType)
      key == getChunkKey(chunk2.x, chunk2.z)
  IN  /\ heap' = [heap EXCEPT ![t.ref] = chunk2]
      /\ editedGrid' = IF chunk2.modified
                       THEN Put(editedGrid, key, chunk2.terrainData)
                       ELSE editedGrid
      /\ UNCHANGED <<chunks, modifiedChunks, loadingChunks, loadingChunksKeys,
                     loadCounter, firstChunksLoaded, playerChunk, loadedFromCache, restores>>
      /\ UNCHANGED outsideChunkManager

\* InputManager.DeleteVoxel
DeleteVoxel(v) ==
  /\ RaycastHits(v)
  /\ LET td == getChunkAndLocalCoords(Manager, v[1], v[3])
     IN  /\ td # <<>>
         /\ ApplyEdit(td[1], v[1], v[2], v[3], AIR)

\* InputManager.SetVoxel
SetVoxel(v, n) ==
  /\ RaycastHits(v)
  /\ LET ax == v[1] + n[1]
         ay == v[2] + n[2]
         az == v[3] + n[3]
         ad == getChunkAndLocalCoords(Manager, ax, az)
     IN  /\ ad # <<>>
         /\ ay \in Ys(WorldConfig)
         /\ heap[ad[1].ref].terrainData[ad[1].localX][ay][ad[1].localZ] = AIR
         /\ ApplyEdit(ad[1], ax, ay, az, TRUNK)

\* one frame: ChunkManager.update(playerPosition)
Update(px, pz) ==
  LET m == update(Manager, px, pz)
  IN  /\ SetManager(m)
      /\ playerChunk' = <<FloorDiv(px, ChunkSize), FloorDiv(pz, ChunkSize)>>
      /\ restores' = IF m.loadedFromCache # <<>> THEN Min(restores + 1, MaxRestores) ELSE restores
      /\ UNCHANGED editedGrid
      /\ UNCHANGED outsideChunkManager

vars == <<cmVars, obsVars, genVars, pathVars, walkVars, physVars, meshVars, spawnVars, regenVars, bootVars, mobVars, sampleVars>>

Init ==
  /\ ChunkManagerInit
  /\ GenIdle
  /\ PathIdle
  /\ SampleIdle
  /\ MobIdle
  /\ BootIdle
  /\ RegenIdle
  /\ WalkIdle
  /\ PhysIdle
  /\ MeshIdle
  /\ SpawnIdle

Next ==
  \/ \E px \in ObserverXs, pz \in ObserverZs : Update(px, pz)
  \/ \E v \in EditVoxels : DeleteVoxel(v)
  \/ \E v \in EditVoxels, n \in FaceNormals : SetVoxel(v, n)

Spec == Init /\ [][Next]_vars

(***************************************************************************)
(* Claims about the ChunkManager                                           *)
(***************************************************************************)
\* C1: no chunk key is in the active map and in the modified-chunk cache at
\* the same time
C1_NoKeyInBothMaps == DOMAIN chunks \cap DOMAIN modifiedChunks = {}

\* C2: an active chunk that was edited has exactly the grid of its last edit,
\* also after it was evicted and loaded again
C2_ReloadKeepsEdits ==
  \A key \in DOMAIN chunks \cap DOMAIN editedGrid :
     heap[chunks[key]].terrainData = editedGrid[key]

\* C2 witness: a second restore from the cache of an edited chunk whose grid
\* differs from what the generator would produce
C2_Witness ==
  /\ restores >= 2
  /\ loadedFromCache # <<>>
  /\ LET key == loadedFromCache[1]
     IN  /\ key \in DOMAIN chunks /\ key \in DOMAIN editedGrid
         /\ heap[chunks[key]].terrainData # NewChunk(key[1], key[2], ChunkSize).terrainData

\* C3: after update returns, every active chunk is within the delete distance
\* of the observer's chunk, per axis
C3_ActiveWithinDeleteDistance ==
  \A key \in DOMAIN chunks :
     /\ Abs(heap[chunks[key]].x - playerChunk[1]) <= RenderDistanceDelete
     /\ Abs(heap[chunks[key]].z - playerChunk[2]) <= RenderDistanceDelete


(***************************************************************************)
(* The terrain generator on its own: generateChunk with the noise-derived  *)
(* inputs drawn from bounded sets                                          *)
(***************************************************************************)
\* floored column heights before the clamp, from below 1 to above maxHeight - 1
GenRawHeights == {-1, 1, SeaLevel + 1, SeaLevel + 5, MaxHeight - 1, MaxHeight + 1}
GenTemperatures == {20, 50, 90}
GenRainfalls == {20, 60}
GenDecoNoises == {0, 50}
GenTreeNoises == {10, 50}
GenCanopyNoises == {0, 60}

\* cave walks: none, a vertical walk from the lowest start height, a wide one
GenCaves ==
  { <<>>,
    << [length |-> 2, start |-> <<1, -5, 1>>,
        steps |-> << [d |-> <<0, 1, 0>>, r2 |-> 4], [d |-> <<0, 1, 0>>, r2 |-> 4] >>] >>,
    << [length |-> 1, start |-> <<1, SeaLevel, 1>>,
        steps |-> << [d |-> <<1, 0, 0>>, r2 |-> 9] >>] >> }

\* the oracle of one call: the centre column has height hA, the others hB
GenOracle(size, hA, hB, t, r, dn, tn, cn, cv) ==
  [raw |-> [x \in Cols(size) |-> [z \in Cols(size) |->
              IF x = size \div 2 /\ z = size \div 2 THEN hA ELSE hB]],
   temperature |-> [x \in Cols(size) |-> [z \in Cols(size) |-> t]],
   rainfall |-> [x \in Cols(size) |-> [z \in Cols(size) |-> r]],
   deco |-> [x \in Cols(size) |-> [z \in Cols(size) |-> dn]],
   tree |-> [x \in Cols(size) |-> [z \in Cols(size) |->
              [treeNoise |-> IF x = size \div 2 /\ z = size \div 2 THEN tn ELSE 50,
               trunkNoise |-> 0, canopyNoise |-> cn]]],
   treeType |-> 500,
   leaf |-> [dx \in -2..2 |-> [dz \in -2..2 |-> IF dx = 2 THEN 10 ELSE 50]],
   caves |-> cv]

\* the oracles the generator is exercised with
GenOracles ==
  { GenOracle(GenSize, hA, hB, t, r, dn, tn, cn, cv) :
      hA \in GenRawHeights, hB \in GenRawHeights, t \in GenTemperatures,
      r \in GenRainfalls, dn \in GenDecoNoises, tn \in GenTreeNoises,
      cn \in GenCanopyNoises, cv \in GenCaves }

\* one call generateChunk(chunkX, chunkZ, size)
Generate ==
  /\ genData = <<>>
  /\ genData' = generateChunk(GenConfig, genOracle, GenSize)
  /\ UNCHANGED genOracle
  /\ UNCHANGED outsideGenerator

InitGen ==
  /\ ChunkManagerInit
  /\ PathIdle
  /\ SampleIdle
  /\ MobIdle
  /\ BootIdle
  /\ RegenIdle
  /\ WalkIdle
  /\ PhysIdle
  /\ MeshIdle
  /\ SpawnIdle
  /\ genOracle \in GenOracles
  /\ genData = <<>>

GenNext == Generate

SpecGen == InitGen /\ [][GenNext]_vars

\* C10: every column of a generated grid has BEDROCK at y = 0 and nowhere else
C10_BedrockAtBottomOnly ==
  genData # <<>> =>
    \A x \in Cols(GenSize), z \in Cols(GenSize), y \in Ys(GenConfig) :
       (genData[x][y][z] = BEDROCK) <=> (y = 0)

(***************************************************************************)
(* Pathfinder                                                              *)
(***************************************************************************)
\* the null that getVoxelType returns for a column whose chunk is not active
NullVoxel == -1
\* iteration budget that PathfindingManager.update passes to findPath (2048 in
\* the code)
MaxSteps == 40

\* ChunkManager.getVoxelType: null when the owning chunk is not active, AIR
\* outside the vertical range of an active chunk (Chunk.getVoxel)
getVoxelType(m, x, y, z) ==
  LET key == getChunkKey(FloorDiv(x, ChunkSize), FloorDiv(z, ChunkSize))
  IN  IF key \notin DOMAIN m.chunks THEN NullVoxel
      ELSE IF y \notin Ys(WorldConfig) THEN AIR
      ELSE m.heap[m.chunks[key]].terrainData[x - key[1] * ChunkSize][y][z - key[2] * ChunkSize]

\* Pathfinder.withinRenderDistance, with getPlayerChunk() = pchunk and
\* getRenderDistance() = RenderDistance
withinRenderDistance(pchunk, chunkX, chunkZ) ==
  LET distX == Abs(chunkX - pchunk[1])
      distZ == Abs(chunkZ - pchunk[2])
  IN  distX <= RenderDistance /\ distZ <= RenderDistance

\* isWalkable as it would be if it asked for every unloaded chunk it meets
isWalkable_AnyDistance(m, pchunk, x, y, z, allowUnloaded) ==
  LET chunkX == FloorDiv(x, ChunkSize)
      chunkZ == FloorDiv(z, ChunkSize)
      ground == getVoxelType(m, x, y - 1, z)
      head == getVoxelType(m, x, y, z)
      above == getVoxelType(m, x, y + 1, z)
      unloaded == [walkable |-> FALSE, missing |-> allowUnloaded,
                   request |-> IF allowUnloaded THEN {getChunkKey(chunkX, chunkZ)} ELSE {}]
      no == [walkable |-> FALSE, missing |-> FALSE, request |-> {}]
  IN  IF ground = NullVoxel THEN unloaded
      ELSE IF ground = AIR THEN no
      ELSE IF head = NullVoxel \/ above = NullVoxel THEN unloaded
      ELSE [no EXCEPT !.walkable = (head = AIR /\ above = AIR)]

\* isWalkable as it would be if only the ground voxel were tested
isWalkable_NoHeadroom(m, pchunk, x, y, z, allowUnloaded) ==
  LET ground == getVoxelType(m, x, y - 1, z)
  IN  [walkable |-> ground # NullVoxel /\ ground # AIR, missing |-> FALSE, request |-> {}]

\* Pathfinder.isWalkable: the returned boolean, whether missingChunks is set,
\* and the keys passed to requestChunkLoad
isWalkable(m, pchunk, x, y, z, allowUnloaded) ==
  LET chunkX == FloorDiv(x, ChunkSize)
      chunkZ == FloorDiv(z, ChunkSize)
      ground == getVoxelType(m, x, y - 1, z)
      head == getVoxelType(m, x, y, z)
      above == getVoxelType(m, x, y + 1, z)
      flag == allowUnloaded /\ withinRenderDistance(pchunk, chunkX, chunkZ)
      unloaded == [walkable |-> FALSE, missing |-> flag,
                   request |-> IF flag THEN {getChunkKey(chunkX, chunkZ)} ELSE {}]
      no == [walkable |-> FALSE, missing |-> FALSE, request |-> {}]
  IN  IF ground = NullVoxel THEN unloaded
      ELSE IF ground = AIR THEN no
      ELSE IF head = NullVoxel \/ above = NullVoxel THEN unloaded
      ELSE [no EXCEPT !.walkable = (head = AIR /\ above = AIR)]

\* Math.floor of a coordinate given in half voxels
FloorHalf(c) == FloorDiv(c, 2)
FloorPos(p) == <<FloorHalf(p[1]), FloorHalf(p[2]), FloorHalf(p[3])>>

\* the 3-D Manhattan distance findPath uses as h
Heuristic(a, b) == Abs(b[1] - a[1]) + Abs(b[2] - a[2]) + Abs(b[3] - a[3])

\* findPath's dirs and the 12 candidates in the order of its two loops
dirs == <<<<1, 0, 0>>, <<-1, 0, 0>>, <<0, 0, 1>>, <<0, 0, -1>>>>
CandidateCount == 12
Candidate(pos, i) ==
  LET d == dirs[((i - 1) \div 3) + 1]
      dy == ((i - 1) % 3) - 1
  IN  <<pos[1] + d[1], pos[2] + dy, pos[3] + d[3]>>

\* the body of findPath's candidate loops for the node popped as cur; the 12
\* candidates are distinct positions, so each is tested against the cost map
\* and closed set as they were when the loops began
Expand(m, pchunk, goal, st, cur) ==
  LET current == st.nodes[cur]
      newG == current.g + 1
      Walk(i) == isWalkable(m, pchunk, Candidate(current.pos, i)[1],
                            Candidate(current.pos, i)[2], Candidate(current.pos, i)[3], TRUE)
      NodeOf(k) ==
        LET h == Heuristic(k, goal)
        IN  [pos |-> k, g |-> newG, h |-> h, f |-> newG + h, parent |-> cur]
  IN  CHOOSE out \in
        {[st EXCEPT
            !.missingChunks = @ \/ (\E i \in 1..CandidateCount : W[i].missing),
            !.requested = @ \cup UNION {W[i].request : i \in 1..CandidateCount},
            !.cost = [k \in DOMAIN @ \cup newKeys |-> IF k \in newKeys THEN newG ELSE @[k]],
            !.nodes = @ \o newNodes,
            !.open = @ \cup {Len(st.nodes) + j : j \in 1..Len(newNodes)}] :
         <<W, newNodes, newKeys>> \in
           {<<W, nn, {nn[j].pos : j \in 1..Len(nn)}>> :
              <<W, nn>> \in
                {<<W, SelectSeq([j \in 1..Len(pushed) |-> NodeOf(Candidate(current.pos, pushed[j]))],
                               LAMBDA n : TRUE)>> :
                   <<W, pushed>> \in
                     {<<W, SelectSeq([i \in 1..CandidateCount |-> i],
                                    LAMBDA i : /\ W[i].walkable
                                               /\ Candidate(current.pos, i) \notin st.closed
                                               /\ ~(/\ Candidate(current.pos, i) \in DOMAIN st.cost
                                                     /\ st.cost[Candidate(current.pos, i)] <= newG))>> :
                        W \in {SelectSeq([i \in 1..CandidateCount |-> Walk(i)],
                                         LAMBDA w : TRUE)}}}}} : TRUE

\* PriorityQueue.pop: a node of least f; among equal f the queue's internal
\* order decides, here the oldest or the newest pushed
TiePolicies == {"oldest", "newest"}
pop(st, tie) ==
  LET best == {n \in st.open : \A o \in st.open : st.nodes[n].f <= st.nodes[o].f}
  IN  IF tie = "oldest" THEN CHOOSE n \in best : \A o \in best : n <= o
      ELSE CHOOSE n \in best : \A o \in best : n >= o

\* the loop as it would run without the test of the budget
RECURSIVE SearchLoop_NoBudget(_, _, _, _, _)
SearchLoop_NoBudget(m, pchunk, goal, tie, st) ==
  IF st.open = {} THEN st
  ELSE LET cur == pop(st, tie)
           cKey == st.nodes[cur].pos
           st1 == [st EXCEPT !.maxSteps = @ - 1, !.open = @ \ {cur}]
           st2 == [st1 EXCEPT !.closed = @ \cup {cKey}]
           after == IF cKey \in st1.closed THEN st1
                    ELSE IF cKey = goal THEN [st2 EXCEPT !.targetNode = cur]
                    ELSE Expand(m, pchunk, goal, st2, cur)
       IN  CHOOSE end \in {IF next.targetNode # 0 THEN next
                           ELSE SearchLoop_NoBudget(m, pchunk, goal, tie, next) : next \in {after}} : TRUE

\* findPath's while loop, from its condition to its exit; the state after an
\* iteration is a value of its own (next) before the loop goes round again
\* while (open.size() > 0 && maxSteps-- > 0): one pass pops one node
RECURSIVE SearchLoop(_, _, _, _, _)
SearchLoop(m, pchunk, goal, tie, st) ==
  IF st.open = {} THEN st
  ELSE IF st.maxSteps <= 0 THEN [st EXCEPT !.maxSteps = @ - 1]
  ELSE CHOOSE end \in
         {IF next.targetNode # 0 THEN next
          ELSE SearchLoop(m, pchunk, goal, tie, next) :
            next \in
              {LET cKey == st.nodes[cur].pos
                   st1 == [st EXCEPT !.maxSteps = @ - 1, !.open = @ \ {cur}]
                   st2 == [st1 EXCEPT !.closed = @ \cup {cKey}]
               IN  IF cKey \in st1.closed THEN st1
                   ELSE IF cKey = goal THEN [st2 EXCEPT !.targetNode = cur]
                   ELSE CHOOSE e \in {Expand(m, pchunk, goal, closing, cur) :
                                         closing \in {st2}} : TRUE :
                 cur \in {pop(st, tie)}}} : TRUE

\* the walk along parent links from the target node, reversed
RECURSIVE PathTo(_, _)
PathTo(nodes, n) ==
  IF n = 0 THEN <<>> ELSE Append(PathTo(nodes, nodes[n].parent), nodes[n].pos)

\* Pathfinder.findPath(start, goal, maxSteps): start and goal in half voxels.
\* result.null tells the null return from an array; the other fields are the
\* pathfinder's and chunk manager's state after the call and the node table.
findPath(m, pchunk, req, start, goal, maxSteps, tie) ==
  LET s == FloorPos(start)
      g == FloorPos(goal)
      h0 == Heuristic(s, g)
      startNode == [pos |-> s, g |-> 0, h |-> h0, f |-> h0, parent |-> 0]
      st0 == [open |-> {1}, nodes |-> <<startNode>>, cost |-> Put(<<>>, s, 0),
              closed |-> {}, maxSteps |-> maxSteps, targetNode |-> 0,
              missingChunks |-> FALSE, requested |-> req]
  IN  CHOOSE out \in
        {[result |-> IF st.missingChunks THEN [null |-> TRUE, path |-> <<>>]
                     ELSE [null |-> FALSE, path |-> PathTo(st.nodes, st.targetNode)],
          missingChunks |-> st.missingChunks,
          requested |-> st.requested,
          nodes |-> st.nodes,
          targetNode |-> st.targetNode,
          open |-> st.open,
          closed |-> st.closed,
          steps |-> maxSteps - st.maxSteps] :
         st \in {SearchLoop(m, pchunk, g, tie, init) : init \in {st0}}} : TRUE

(***************************************************************************)
(* PathfindingManager                                                      *)
(***************************************************************************)
\* cap on the number of requestPath calls in a run
MaxRequests == 2

\* queue.shift() as it would be if it took the most recent request
shift_FromTail(q) == [item |-> q[Len(q)], rest |-> SubSeq(q, 1, Len(q) - 1)]

\* queue.shift()
shift(q) == [item |-> Head(q), rest |-> Tail(q)]

\* PathfindingManager.requestPath(start, goal)
RequestPath(start, goal) ==
  /\ issued < MaxRequests
  /\ issued' = issued + 1
  /\ queue' = Append(queue, [id |-> issued + 1, start |-> start, goal |-> goal])
  /\ UNCHANGED <<processing, settled, missingChunks, requested, searches>>
  /\ UNCHANGED outsidePath

\* what reject receives when the search throws
SearchError == [null |-> TRUE, path |-> <<>>, error |-> TRUE]

\* a search that threw has returned nothing
NoSearch == [result |-> SearchError]

\* how many times the promise of request id has been settled
Settlements(id) == IF id \in DOMAIN settled THEN settled[id].times ELSE 0

\* update() as it would be without the finally block
update_NoFinally(tie, threw) ==
  /\ ~processing
  /\ queue # <<>>
  /\ \E taken \in {shift(queue)} :
     /\ queue' = taken.rest
     /\ \E r \in {IF threw THEN NoSearch
                  ELSE findPath(Manager, playerChunk, {}, taken.item.start,
                                taken.item.goal, MaxSteps, tie)} :
         /\ processing' = threw
         /\ settled' = Put(settled, taken.item.id,
              [kind |-> IF threw THEN "rejected" ELSE "resolved",
               value |-> IF threw THEN SearchError ELSE r.result,
               times |-> Settlements(taken.item.id) + 1])
         /\ missingChunks' = IF threw THEN missingChunks ELSE r.missingChunks
         /\ requested' = IF threw THEN requested ELSE requested \cup r.requested
         /\ searches' = IF threw THEN searches ELSE Append(searches,
              [id |-> taken.item.id,
               start |-> FloorPos(taken.item.start),
               goal |-> FloorPos(taken.item.goal),
               result |-> r.result,
               requested |-> r.requested,
               active |-> DOMAIN chunks,
               settledBefore |-> DOMAIN settled,
               waiting |-> {taken.rest[i].id : i \in 1..Len(taken.rest)},
               nodes |-> r.nodes,
               targetNode |-> r.targetNode,
               closed |-> r.closed,
               steps |-> r.steps])
  /\ UNCHANGED issued
  /\ UNCHANGED outsidePath

\* PathfindingManager.update(): returns at once when busy or idle, otherwise
\* takes one request, runs its search to the end and settles its promise:
\* resolve(path), or reject(err) when findPath throws (threw; the exception is
\* taken to leave the Pathfinder as it was); finally processing is reset
SearchAndSettle(tie, threw) ==
  /\ ~processing
  /\ queue # <<>>
  /\ \E taken \in {shift(queue)} :
     /\ queue' = taken.rest
     /\ \E r \in {IF threw THEN NoSearch
                  ELSE findPath(Manager, playerChunk, {}, taken.item.start,
                                taken.item.goal, MaxSteps, tie)} :
         /\ processing' = FALSE
         /\ settled' = Put(settled, taken.item.id,
              [kind |-> IF threw THEN "rejected" ELSE "resolved",
               value |-> IF threw THEN SearchError ELSE r.result,
               times |-> Settlements(taken.item.id) + 1])
         /\ missingChunks' = IF threw THEN missingChunks ELSE r.missingChunks
         /\ requested' = IF threw THEN requested ELSE requested \cup r.requested
         /\ searches' = IF threw THEN searches ELSE Append(searches,
              [id |-> taken.item.id,
               start |-> FloorPos(taken.item.start),
               goal |-> FloorPos(taken.item.goal),
               result |-> r.result,
               requested |-> r.requested,
               active |-> DOMAIN chunks,
               settledBefore |-> DOMAIN settled,
               waiting |-> {taken.rest[i].id : i \in 1..Len(taken.rest)},
               nodes |-> r.nodes,
               targetNode |-> r.targetNode,
               closed |-> r.closed,
               steps |-> r.steps])
  /\ UNCHANGED issued
  /\ UNCHANGED outsidePath

\* update() with a search that returns
PathUpdate(tie) == SearchAndSettle(tie, FALSE)

\* the chunk manager serves a load asked for through requestChunkLoad: the
\* chunk becomes active, restored from modifiedChunks when cached there
LoadRequestedChunk(key) ==
  /\ key \in requested
  /\ LET m == Manager
         cached == key \in DOMAIN m.modifiedChunks
         ref == IF cached THEN m.modifiedChunks[key] ELSE NewRef(m)
     IN  /\ chunks' = IF key \in DOMAIN chunks THEN chunks ELSE Put(chunks, key, ref)
         /\ heap' = IF key \in DOMAIN chunks \/ cached THEN heap
                    ELSE Put(heap, ref, NewChunk(key[1], key[2], ChunkSize))
  /\ requested' = requested \ {key}
  /\ UNCHANGED <<modifiedChunks, loadingChunks, loadingChunksKeys, loadCounter,
                 firstChunksLoaded, playerChunk, loadedFromCache>>
  /\ UNCHANGED <<queue, processing, settled, issued, missingChunks, searches>>
  /\ UNCHANGED outsidePathAndChunks

(***************************************************************************)
(* Worlds the path searches run in: terrain shaped by edits, held in       *)
(* chunks that are active or wait in modifiedChunks                        *)
(***************************************************************************)
\* the walkable platform and the box of columns around it
HillHeights == <<0, 1, 2, 3, 2, 1, 0>>
PlatformXs == 1..Len(HillHeights)
PlatformZs == 1..2
ArenaMaxX == Len(HillHeights) + 1
ArenaMaxZ == Cardinality(PlatformZs) + 1
Arenas == {"flat", "wall", "hill", "detour", "outskirts"}

\* y of the topmost solid voxel of a column, -1 for a column without ground
ArenaGround(arena, x, z) ==
  IF x \notin PlatformXs \/ z \notin PlatformZs THEN -1
  ELSE IF arena = "wall" /\ x = 4 THEN 2
  ELSE IF arena = "hill" /\ z = 1 THEN HillHeights[x]
  ELSE IF arena = "detour" /\ x = 4 /\ z = 2 THEN -1
  ELSE 0

ArenaChunkKeys ==
  {getChunkKey(cx, cz) : cx \in 0..FloorDiv(ArenaMaxX, ChunkSize),
                         cz \in 0..FloorDiv(ArenaMaxZ, ChunkSize)}

ArenaChunk(arena, key) ==
  [x |-> key[1], z |-> key[2], size |-> ChunkSize,
   terrainData |->
     [lx \in Cols(ChunkSize) |-> [y \in Ys(WorldConfig) |-> [lz \in Cols(ChunkSize) |->
        IF y <= ArenaGround(arena, key[1] * ChunkSize + lx, key[2] * ChunkSize + lz)
        THEN STONE ELSE AIR]]],
   modified |-> TRUE]

\* in the detour world the chunks from column x = 4 on are not loaded; in the
\* outskirts world the chunks of column x = 0, behind the start, are not
ArenaInactive(arena) ==
  IF arena = "detour"
  THEN {k \in ArenaChunkKeys : k[1] >= FloorDiv(4, ChunkSize)}
  ELSE IF arena = "outskirts"
  THEN {k \in ArenaChunkKeys : k[1] = 0}
  ELSE {}

ArenaRef(key) == key[1] * (FloorDiv(ArenaMaxZ, ChunkSize) + 1) + key[2] + 1

\* the observer stands on column (5, 1)
ArenaPlayerChunk == <<FloorDiv(5, ChunkSize), FloorDiv(1, ChunkSize)>>

ArenaInit(arena) ==
  /\ heap = [ref \in {ArenaRef(k) : k \in ArenaChunkKeys} |->
               ArenaChunk(arena, CHOOSE k \in ArenaChunkKeys : ArenaRef(k) = ref)]
  /\ chunks = [k \in ArenaChunkKeys \ ArenaInactive(arena) |-> ArenaRef(k)]
  /\ modifiedChunks = [k \in ArenaInactive(arena) |-> ArenaRef(k)]
  /\ loadingChunks = FALSE
  /\ loadingChunksKeys = <<>>
  /\ loadCounter = LoadCounterReset
  /\ firstChunksLoaded = TRUE
  /\ playerChunk = ArenaPlayerChunk
  /\ loadedFromCache = <<>>
  /\ editedGrid = [k \in ArenaChunkKeys |-> ArenaChunk(arena, k).terrainData]
  /\ restores = 0

\* positions handed to requestPath, in half voxels: the centre of a column at
\* standing height
Centre(x, y, z) == <<2 * x + 1, 2 * y, 2 * z + 1>>
PathStarts == {Centre(1, 1, 1)}
PathGoals == {Centre(7, 1, 1), Centre(5, 1, 2)}

InitPath ==
  /\ \E arena \in Arenas : ArenaInit(arena)
  /\ GenIdle
  /\ PathIdle
  /\ SampleIdle
  /\ MobIdle
  /\ BootIdle
  /\ RegenIdle
  /\ WalkIdle
  /\ PhysIdle
  /\ MeshIdle
  /\ SpawnIdle

PathNext ==
  \/ \E start \in PathStarts, goal \in PathGoals : RequestPath(start, goal)
  \/ \E tie \in TiePolicies : PathUpdate(tie)
  \/ \E key \in ArenaChunkKeys : LoadRequestedChunk(key)

SpecPath == InitPath /\ [][PathNext]_vars

(***************************************************************************)
(* Claims about path requests and searches                                 *)
(***************************************************************************)
\* a position an agent can stand on: ground below, two voxels of air
Standable(m, p) ==
  LET ground == getVoxelType(m, p[1], p[2] - 1, p[3])
  IN  /\ ground # NullVoxel /\ ground # AIR
      /\ getVoxelType(m, p[1], p[2], p[3]) = AIR
      /\ getVoxelType(m, p[1], p[2] + 1, p[3]) = AIR

\* the positions one move away from p
Moves(m, p) == {q \in {Candidate(p, i) : i \in 1..CandidateCount} : Standable(m, q)}

\* least number of moves from a position of frontier to position to, -1 if none
RECURSIVE Bfs(_, _, _, _, _)
Bfs(m, frontier, seen, to, d) ==
  IF to \in frontier THEN d
  ELSE IF frontier = {} THEN -1
  ELSE LET next == UNION {Moves(m, p) : p \in frontier} \ seen
       IN  Bfs(m, next, seen \cup next, to, d + 1)

ShortestMoves(m, from, to) == Bfs(m, {from}, {from}, to, 0)

\* the searches made in the world as it is now
CurrentSearches == {n \in 1..Len(searches) : searches[n].active = DOMAIN chunks}

\* the platform is level: ground at y = 0 and air above in all its columns
FlatPlatform(m) ==
  \A x \in PlatformXs, z \in PlatformZs : Standable(m, <<x, 1, z>>)

\* C4: when a search ends with the missing-chunks signal, update() appends the
\* same request to the queue again and leaves its promise unsettled
C4_MissingChunksRequeues ==
  [][(Len(searches') > Len(searches) /\ searches'[Len(searches')].result.null)
       => (/\ settled' = settled
           /\ queue' # <<>>
           /\ queue'[Len(queue')] = Head(queue))]_vars

\* C5: an update() call starts at most one search, and requests are searched
\* and settled in arrival order: when a request's search runs, every earlier
\* request is already settled and every waiting request arrived later
C5_OneSearchPerUpdateFifo ==
  /\ [](\A n \in 1..Len(searches) :
          /\ searches[n].settledBefore = {id \in 1..issued : id < searches[n].id}
          /\ \A w \in searches[n].waiting : w > searches[n].id
          /\ searches[n].id \in DOMAIN settled)
  /\ [][Len(searches') <= Len(searches) + 1]_vars

\* two requests were queued together and both have been searched
C5_Witness ==
  \E n \in 1..Len(searches) : searches[n].waiting # {} /\ Len(searches) > n

\* C6: a search that touches an inactive chunk within render distance returns
\* null and has that chunk's load requested; the same search repeated once the
\* requested chunks are active returns a real path when one exists
C6_RetryAfterLoadFindsPath ==
  \A i \in 1..Len(searches), j \in CurrentSearches :
     /\ searches[i].requested # {} => searches[i].result.null
     /\ (/\ i < j
         /\ searches[i].start = searches[j].start
         /\ searches[i].goal = searches[j].goal
         /\ searches[i].requested # {}
         /\ searches[i].requested \subseteq searches[j].active
         /\ ShortestMoves(Manager, searches[j].start, searches[j].goal) > 0)
        => (~searches[j].result.null /\ searches[j].result.path # <<>>)

\* C7: a returned path starts at the floored start, ends at the floored goal,
\* moves one cardinal step with a height change of at most 1 between
\* consecutive nodes, and every node after the start satisfies isWalkable
\* (non-AIR ground, AIR at feet and head); when no such walk joins start and
\* goal no path is returned
C7_PathShape ==
  \A n \in CurrentSearches :
     LET s == searches[n]
         p == s.result.path
     IN  /\ p # <<>> =>
              /\ p[1] = s.start
              /\ p[Len(p)] = s.goal
              /\ \A i \in 1..(Len(p) - 1) :
                    /\ Abs(p[i + 1][1] - p[i][1]) + Abs(p[i + 1][3] - p[i][3]) = 1
                    /\ Abs(p[i + 1][2] - p[i][2]) <= 1
                    /\ Standable(Manager, p[i + 1])
         /\ ShortestMoves(Manager, s.start, s.goal) = -1 => p = <<>>

\* a path that climbs or descends has been returned
C7_Witness ==
  \E n \in CurrentSearches :
     LET p == searches[n].result.path
     IN  \E i \in 1..(Len(p) - 1) : p[i + 1][2] # p[i][2]

\* C8: a returned path has the fewest moves of all walks from start to goal;
\* on the level platform that is the Manhattan distance
C8_FewestSteps ==
  \A n \in CurrentSearches :
     LET s == searches[n]
         p == s.result.path
     IN  p # <<>> =>
           /\ Len(p) - 1 = ShortestMoves(Manager, s.start, s.goal)
           /\ FlatPlatform(Manager) =>
                Len(p) - 1 = Abs(s.goal[1] - s.start[1]) + Abs(s.goal[3] - s.start[3])

\* C9: the heuristic of every node a search creates is at most the least
\* number of moves from that node to the goal
C9_HeuristicAdmissible ==
  \A n \in CurrentSearches :
     \A i \in 1..Len(searches[n].nodes) :
        LET d == ShortestMoves(Manager, searches[n].nodes[i].pos, searches[n].goal)
        IN  d # -1 => searches[n].nodes[i].h <= d

(***************************************************************************)
(* The observer walking: update calls from a chunk, its neighbour, and a   *)
(* chunk far from both                                                     *)
(***************************************************************************)
WalkXs == {0, ChunkSize, FarChunk * ChunkSize + 1}
WalkZs == {0}

\* the same chunk coordinate or two adjacent ones
AdjacentChunks(a, b) == Abs(a[1] - b[1]) <= 1 /\ Abs(a[2] - b[2]) <= 1

\* within load distance of chunk c (the square SetChunksToLoad scans)
WithinLoadDistance(k, c) ==
  Abs(k[1] - c[1]) <= RenderDistance /\ Abs(k[2] - c[2]) <= RenderDistance

\* one frame: ChunkManager.update(playerPosition), with the record of what the
\* calls of the current walk evicted and loaded again
Walk(px, pz) ==
  LET m == update(Manager, px, pz)
      c == <<FloorDiv(px, ChunkSize), FloorDiv(pz, ChunkSize)>>
      same == /\ \A w \in walkChunks : AdjacentChunks(w, c)
              /\ Cardinality(walkChunks \cup {c}) <= 2
      evictedNow == DOMAIN chunks \ DOMAIN m.chunks
      loadedNow == DOMAIN m.chunks \ DOMAIN chunks
      evictedBefore == IF same THEN evictedInWalk ELSE {}
  IN  /\ SetManager(m)
      /\ playerChunk' = c
      /\ walkChunks' = IF same THEN walkChunks \cup {c} ELSE {c}
      /\ evictedInWalk' = evictedBefore \cup evictedNow
      /\ reloadedInWalk' = (IF same THEN reloadedInWalk ELSE {})
                             \cup (loadedNow \cap evictedBefore)
      /\ UNCHANGED outsideWalk

InitWalk ==
  /\ ChunkManagerInit
  /\ GenIdle
  /\ PathIdle
  /\ SampleIdle
  /\ MobIdle
  /\ BootIdle
  /\ RegenIdle
  /\ WalkIdle
  /\ PhysIdle
  /\ MeshIdle
  /\ SpawnIdle

\* the observer starts anywhere and, once in chunk 0 or its neighbour, stays in
\* those two
WalkNext ==
  \E px \in WalkXs, pz \in WalkZs :
     /\ px > ChunkSize => \A w \in walkChunks : w[1] > 1
     /\ Walk(px, pz)

SpecWalk == InitWalk /\ [][WalkNext]_vars

\* C11: a chunk evicted by an update call is not within load distance of the
\* observer's chunk in that call, and while the observer alternates between
\* two adjacent chunks no chunk is evicted and then loaded again
C11_NoOscillation ==
  /\ [](reloadedInWalk = {})
  /\ [][\A k \in DOMAIN chunks \ DOMAIN chunks' : ~WithinLoadDistance(k, playerChunk')]_vars

\* during a walk over two adjacent chunks chunks were evicted and, later in the
\* same walk, chunks were loaded
C11_Witness ==
  /\ Cardinality(walkChunks) = 2
  /\ evictedInWalk # {}
  /\ DOMAIN chunks # {}

\* C12: the chunk an update call loads is nearest-first: no coordinate within
\* load distance of the observer's current chunk that is not active is
\* strictly closer to that chunk than the coordinate just loaded
C12_NearestFirst ==
  [][\A k \in DOMAIN chunks' \ DOMAIN chunks :
       \A x \in (playerChunk'[1] - RenderDistance)..(playerChunk'[1] + RenderDistance),
          z \in (playerChunk'[2] - RenderDistance)..(playerChunk'[2] + RenderDistance) :
          getChunkKey(x, z) \notin DOMAIN chunks'
            => DistSq(getChunkKey(x, z), playerChunk'[1], playerChunk'[2])
                 >= DistSq(k, playerChunk'[1], playerChunk'[2])]_vars

\* C13: one update call adds at most one entry to the active map
C13_AtMostOneLoadPerUpdate ==
  [][Cardinality(DOMAIN chunks' \ DOMAIN chunks) <= 1]_vars

\* several chunks are active and several keys still wait in the load queue
C13_Witness ==
  /\ Cardinality(DOMAIN chunks) >= 2
  /\ Len(loadingChunksKeys) >= 2

\* ---------------------------------------------------------------------------
\* Player physics (unnamed/part_001). Lengths are in millionths of a voxel and
\* times in milliseconds, so that gravity, epsilon and the collider's
\* dimensions are integers and the integration is exact.

Voxel == 1000 * 1000
Gravity == 25
GravityWaterDivisor == 10
ColliderHalfWidth == 300000
ColliderHeight == 1600000
MaxVerticalVelocity == 50000
Epsilon == 1000
FootOffset == 100000
MaxIterations == 10
MaxDelta == 100

\* the frame times the render loops pass: delta is clamped to 0.1 s, and to
\* 0.05 s in the earlier loop
Deltas == {MaxDelta \div 2, MaxDelta}

CeilDiv(a, b) == -FloorDiv(-a, b)

\* world.getLoadedChunks(): the chunks around chunk (0, 0) in the order the
\* chunk manager loaded them
FloorChunks == SortByDistance(ScanKeys([chunks |-> <<>>], 0, 0), 0, 0)

\* terrainData of a chunk of the flat single-layer floor
FloorVoxel(i, j, k) ==
  IF j \notin 0..(WorldHeight - 1) THEN NullVoxel
  ELSE IF j = 0 THEN STONE ELSE AIR

getCollider(p) ==
  [min |-> [x |-> p.x - ColliderHalfWidth, y |-> p.y, z |-> p.z - ColliderHalfWidth],
   max |-> [x |-> p.x + ColliderHalfWidth, y |-> p.y + ColliderHeight,
            z |-> p.z + ColliderHalfWidth]]

aabbIntersect(a, b) ==
  /\ a.min.x < b.max.x /\ a.max.x > b.min.x
  /\ a.min.y < b.max.y /\ a.max.y > b.min.y
  /\ a.min.z < b.max.z /\ a.max.z > b.min.z

ChunkBox(c) ==
  [min |-> [x |-> c[1] * ChunkSize * Voxel, y |-> 0, z |-> c[2] * ChunkSize * Voxel],
   max |-> [x |-> (c[1] + 1) * ChunkSize * Voxel, y |-> WorldHeight * Voxel,
            z |-> (c[2] + 1) * ChunkSize * Voxel]]

BlockBox(c, b) ==
  [min |-> [x |-> (c[1] * ChunkSize + b[1]) * Voxel, y |-> b[2] * Voxel,
            z |-> (c[2] * ChunkSize + b[3]) * Voxel],
   max |-> [x |-> (c[1] * ChunkSize + b[1] + 1) * Voxel, y |-> (b[2] + 1) * Voxel,
            z |-> (c[2] * ChunkSize + b[3] + 1) * Voxel]]

\* the overlap of the collider and a block on each axis
Overlaps(collider, box) ==
  [x |-> Min(collider.max.x - box.min.x, box.max.x - collider.min.x),
   y |-> Min(collider.max.y - box.min.y, box.max.y - collider.min.y),
   z |-> Min(collider.max.z - box.min.z, box.max.z - collider.min.z)]

MinOverlap(o) == Min(o.x, Min(o.y, o.z))

\* the blocks of chunk c the triple loop stops at: inside the index range of
\* the collider, neither AIR nor WATER, intersecting, overlap not below epsilon
CollidingBlocks(c, collider) ==
  LET startI == Max(0, FloorDiv(collider.min.x, Voxel) - c[1] * ChunkSize)
      endI == Min(ChunkSize, CeilDiv(collider.max.x, Voxel) - c[1] * ChunkSize)
      startJ == Max(0, FloorDiv(collider.min.y, Voxel))
      endJ == Min(WorldHeight, CeilDiv(collider.max.y, Voxel))
      startK == Max(0, FloorDiv(collider.min.z, Voxel) - c[2] * ChunkSize)
      endK == Min(ChunkSize, CeilDiv(collider.max.z, Voxel) - c[2] * ChunkSize)
  IN  IF ~aabbIntersect(collider, ChunkBox(c)) THEN {}
      ELSE {b \in (startI..(endI - 1)) \X (startJ..(endJ - 1)) \X (startK..(endK - 1)) :
              /\ FloorVoxel(b[1], b[2], b[3]) \notin {AIR, WATER}
              /\ aabbIntersect(collider, BlockBox(c, b))
              /\ MinOverlap(Overlaps(collider, BlockBox(c, b))) >= Epsilon}

\* the first of them in loop order: i outermost, k innermost
FirstBlock(blocks) ==
  CHOOSE b \in blocks :
    \A o \in blocks :
      \/ b[1] < o[1]
      \/ b[1] = o[1] /\ b[2] < o[2]
      \/ b[1] = o[1] /\ b[2] = o[2] /\ b[3] <= o[3]

\* the resolution along the axis of least overlap
ResolveBlock(p, v, collider, box) ==
  LET o == Overlaps(collider, box)
      m == MinOverlap(o)
  IN  IF m = o.x
      THEN [position |-> [p EXCEPT !.x = IF 2 * p.x < box.min.x + box.max.x
                                         THEN box.min.x - ColliderHalfWidth
                                         ELSE box.max.x + ColliderHalfWidth],
            velocity |-> v]
      ELSE IF m = o.y
      THEN [position |-> [p EXCEPT !.y = IF 2 * p.y < box.min.y + box.max.y
                                         THEN box.min.y - ColliderHeight
                                         ELSE box.max.y],
            velocity |-> [v EXCEPT !.y = 0]]
      ELSE [position |-> [p EXCEPT !.z = IF 2 * p.z < box.min.z + box.max.z
                                         THEN box.min.z - ColliderHalfWidth
                                         ELSE box.max.z + ColliderHalfWidth],
            velocity |-> v]

\* the voxel the foot sample of chunk c reads, NullVoxel when the foot is
\* outside the chunk
FootVoxel(c, foot, up) ==
  LET box == ChunkBox(c)
  IN  IF /\ foot.x >= box.min.x /\ foot.x < box.max.x
         /\ foot.y >= box.min.y /\ foot.y < box.max.y
         /\ foot.z >= box.min.z /\ foot.z < box.max.z
      THEN FloorVoxel(FloorDiv(foot.x, Voxel) - c[1] * ChunkSize,
                      FloorDiv(foot.y, Voxel) + up,
                      FloorDiv(foot.z, Voxel) - c[2] * ChunkSize)
      ELSE NullVoxel


\* one call of the resolver: the chunks are visited in order, each one first
\* sets the flags when the foot is inside it and then resolves the first
\* colliding block; a resolution ends the call
processCollisionsAndEnvironment(p, v) ==
  LET collider == getCollider(p)
      foot == [p EXCEPT !.y = p.y - FootOffset]
      hit == {n \in 1..Len(FloorChunks) : CollidingBlocks(FloorChunks[n], collider) # {}}
      first == IF hit = {} THEN 0 ELSE CHOOSE n \in hit : \A o \in hit : n <= o
      visited == IF first = 0 THEN 1..Len(FloorChunks) ELSE 1..first
      water == \E n \in visited :
                  \/ FootVoxel(FloorChunks[n], foot, 0) = WATER
                  \/ /\ FootVoxel(FloorChunks[n], foot, 0) \notin {NullVoxel, AIR, WATER}
                     /\ FootVoxel(FloorChunks[n], foot, 1) = WATER
      floor == \E n \in visited :
                  FootVoxel(FloorChunks[n], foot, 0) \notin {NullVoxel, AIR, WATER}
      moved == IF first = 0 THEN [position |-> p, velocity |-> v]
               ELSE ResolveBlock(p, v, collider,
                                 BlockBox(FloorChunks[first],
                                          FirstBlock(CollidingBlocks(FloorChunks[first],
                                                                     collider))))
  IN  [position |-> moved.position, velocity |-> moved.velocity,
       collided |-> first # 0, onFloor |-> floor, onWater |-> water]

\* while (this.processCollisionsAndEnvironment() && iterations < maxIterations)
\*   iterations++;
\* the result is the last call's, with the number of calls made
RECURSIVE ResolveLoop(_, _, _)
ResolveLoop(p, v, iterations) ==
  CHOOSE out \in
    {IF r.collided /\ iterations < MaxIterations
       THEN ResolveLoop(r.position, r.velocity, iterations + 1)
       ELSE [position |-> r.position, velocity |-> r.velocity,
             collided |-> r.collided, onFloor |-> r.onFloor, onWater |-> r.onWater,
             calls |-> iterations + 1] :
     r \in {processCollisionsAndEnvironment(p, v)}} : TRUE

\* Player.update(delta) of a player that is playing and not flying in a loaded
\* world: gravity, integration, the resolution loop
PlayerUpdate(delta) ==
  LET g == IF onWater THEN (Gravity * delta) \div GravityWaterDivisor ELSE Gravity * delta
      limit == IF onWater THEN MaxVerticalVelocity \div GravityWaterDivisor
               ELSE MaxVerticalVelocity
      v == [velocity EXCEPT !.y = Max(Min(velocity.y - g, limit), -limit)]
      p == [x |-> position.x + v.x * delta, y |-> position.y + v.y * delta,
            z |-> position.z + v.z * delta]
  IN  \E out \in {ResolveLoop(p, v, 0)} :
         /\ position' = out.position
         /\ velocity' = out.velocity
         /\ onFloor' = out.onFloor
         /\ onWater' = out.onWater
         /\ resolverCalls' = out.calls
         /\ stillColliding' = out.collided
         /\ UNCHANGED outsidePhysics

\* where the player is let go (flying keeps velocity.y at 0 and reaches any
\* position): over the middle of a block or over an edge between two blocks,
\* from resting on the floor to a few voxels above it
DropXs == {Voxel \div 2, Voxel \div 4, Voxel}
DropYs == {Voxel + n * (Voxel \div 10) : n \in {0, 3, 9, 20, 38}}

InitPhysics ==
  /\ ChunkManagerInit
  /\ GenIdle
  /\ PathIdle
  /\ SampleIdle
  /\ MobIdle
  /\ BootIdle
  /\ RegenIdle
  /\ WalkIdle
  /\ MeshIdle
  /\ SpawnIdle
  /\ position \in {[x |-> x, y |-> y, z |-> Voxel \div 2] : x \in DropXs, y \in DropYs}
  /\ velocity = Origin
  /\ onFloor = FALSE
  /\ onWater = FALSE
  /\ resolverCalls = 0
  /\ stillColliding = FALSE

\* a player whose collider is wholly below the world meets no block again
PhysicsNext ==
  \E delta \in Deltas :
     /\ position.y + ColliderHeight > 0
     /\ PlayerUpdate(delta)

SpecPhysics == InitPhysics /\ [][PhysicsNext]_vars

\* the collider intersects no block of the floor that is neither AIR nor WATER
NoSolidOverlap ==
  \A n \in 1..Len(FloorChunks) :
    \A b \in (0..(ChunkSize - 1)) \X (0..(WorldHeight - 1)) \X (0..(ChunkSize - 1)) :
      FloorVoxel(b[1], b[2], b[3]) \notin {AIR, WATER}
        => ~aabbIntersect(getCollider(position), BlockBox(FloorChunks[n], b))

\* C14: after an update in which the resolver reported a collision and then,
\* within the iteration cap, reported none, the collider overlaps no solid voxel
\* of the flat floor and onFloor is true
C14_RestsOnFloor ==
  (resolverCalls > 1 /\ ~stillColliding) => (NoSolidOverlap /\ onFloor)

\* C15: one update runs the resolver at most maxIterations times
C15_AtMostMaxIterationsCalls == resolverCalls <= MaxIterations

\* ---------------------------------------------------------------------------
\* Chunk meshing (src/world/Chunk.ts): createMesh, rebuildMesh and the whole of
\* updateVoxel, on chunks of MeshHeight layers

MeshHeight == 2

\* getVoxel: out of range counts as AIR
getVoxel(chunk, x, y, z) ==
  IF x < 0 \/ x >= chunk.size \/ y < 0 \/ y >= Cardinality(DOMAIN chunk.terrainData[0])
     \/ z < 0 \/ z >= chunk.size
  THEN AIR
  ELSE chunk.terrainData[x][y][z]

\* dims = [size, terrainData[0].length, size], indexed from 0
Dims(chunk) ==
  [a \in 0..2 |-> IF a = 1 THEN Cardinality(DOMAIN chunk.terrainData[0]) ELSE chunk.size]

\* an empty cell of the mask
NullCell == [voxel |-> NullVoxel, backface |-> FALSE]

\* the cell of the mask of slice s of axis d at (i, j)
MaskCell(chunk, d, s, i, j) ==
  LET u == (d + 1) % 3
      x == [a \in 0..2 |-> IF a = d THEN s ELSE IF a = u THEN i ELSE j]
      voxelA == IF s < Dims(chunk)[d] THEN getVoxel(chunk, x[0], x[1], x[2]) ELSE AIR
      voxelB == IF s > 0
                THEN getVoxel(chunk, x[0] - (IF d = 0 THEN 1 ELSE 0),
                              x[1] - (IF d = 1 THEN 1 ELSE 0),
                              x[2] - (IF d = 2 THEN 1 ELSE 0))
                ELSE AIR
  IN  IF voxelA # AIR /\ voxelB = AIR
      THEN [voxel |-> voxelA, backface |-> ~(d = 1 /\ s = 0)]
      ELSE IF voxelA = AIR /\ voxelB # AIR
      THEN [voxel |-> voxelB, backface |-> FALSE]
      ELSE NullCell

\* the mask of a slice: cell (i, j) at index i + j * dimU
Mask(chunk, d, s) ==
  LET dimU == Dims(chunk)[(d + 1) % 3]
      dimV == Dims(chunk)[(d + 2) % 3]
  IN  [n \in 0..(dimU * dimV - 1) |-> MaskCell(chunk, d, s, n % dimU, n \div dimU)]

\* the width of the quad as it would be if the run did not stop at a cell that
\* differs
QuadWidth_ToRowEnd(mask, dimU, idx) == dimU - (idx % dimU)

\* the width of the quad that starts at index idx of row j: the run of equal
\* cells to its right
QuadWidth(mask, dimU, idx) ==
  LET i == idx % dimU
  IN  CHOOSE w \in 1..(dimU - i) :
        /\ \A k \in 1..(w - 1) : mask[idx + k] = mask[idx]
        /\ i + w = dimU \/ mask[idx + w] # mask[idx]

\* the height of the quad as it would be without the merge of rows
QuadHeight_One(mask, dimU, dimV, idx, w) == 1

\* its height: the rows below whose w cells all equal the first cell
QuadHeight(mask, dimU, dimV, idx, w) ==
  LET j == idx \div dimU
  IN  CHOOSE h \in 1..(dimV - j) :
        /\ \A l \in 1..(h - 1) : \A k \in 0..(w - 1) : mask[idx + k + l * dimU] = mask[idx]
        /\ j + h = dimV \/ \E k \in 0..(w - 1) : mask[idx + k + h * dimU] # mask[idx]

\* the greedy pass over a mask from index n on: a cell that is set starts a quad
\* and its rectangle is cleared
RECURSIVE Greedy(_, _, _, _, _, _)
Greedy(mask, dimU, dimV, d, s, n) ==
  IF n >= dimU * dimV THEN <<>>
  ELSE IF mask[n] = NullCell THEN Greedy(mask, dimU, dimV, d, s, n + 1)
  ELSE LET w == QuadWidth(mask, dimU, n)
           h == QuadHeight(mask, dimU, dimV, n, w)
           covered == {n + k + l * dimU : k \in 0..(w - 1), l \in 0..(h - 1)}
           cleared == [c \in DOMAIN mask |-> IF c \in covered THEN NullCell ELSE mask[c]]
       IN  <<[d |-> d, slice |-> s, i |-> n % dimU, j |-> n \div dimU, w |-> w, h |-> h,
              voxel |-> mask[n].voxel, backface |-> mask[n].backface]>>
             \o Greedy(cleared, dimU, dimV, d, s, n + 1)

\* the quads of the slices s, s + 1, ... of axis d and of the axes after it
RECURSIVE MeshFrom(_, _, _)
MeshFrom(chunk, d, s) ==
  IF d > 2 THEN <<>>
  ELSE IF s > Dims(chunk)[d] THEN MeshFrom(chunk, d + 1, 0)
  ELSE Greedy(Mask(chunk, d, s), Dims(chunk)[(d + 1) % 3], Dims(chunk)[(d + 2) % 3], d, s, 0)
         \o MeshFrom(chunk, d, s + 1)

\* createMesh: a new Mesh object with the greedy-meshed geometry of the grid
createMesh(chunk, id) == [id |-> id, geometry |-> MeshFrom(chunk, 0, 0)]

\* rebuildMesh as it would be if it kept the new Mesh object
rebuildMesh_ReplacesMesh(chunk) ==
  LET newMesh == createMesh(chunk, chunk.mesh + 1)
  IN  [chunk EXCEPT !.mesh = newMesh.id, !.geometry = newMesh.geometry]

\* rebuildMesh: the geometry of a new mesh is moved into the chunk's own mesh
rebuildMesh(chunk) ==
  LET newMesh == createMesh(chunk, chunk.mesh + 1)
  IN  [chunk EXCEPT !.geometry = newMesh.geometry]

\* the whole of Chunk.updateVoxel: an in-range write is followed by rebuildMesh
updateVoxelAndMesh(chunk, localX, y, localZ, newType) ==
  IF localX < 0 \/ localX >= chunk.size \/ localZ < 0 \/ localZ >= chunk.size
     \/ y < 0 \/ y >= Cardinality(DOMAIN chunk.terrainData[0])
  THEN chunk
  ELSE rebuildMesh(updateVoxel(chunk, localX, y, localZ, newType))


\* new Chunk: the constructor's mesh is the first Mesh object
MeshChunkOf(terrainData) ==
  LET chunk == [x |-> 0, z |-> 0, size |-> ChunkSize, terrainData |-> terrainData,
                modified |-> FALSE, mesh |-> 1, geometry |-> <<>>]
  IN  [chunk EXCEPT !.geometry = createMesh(chunk, 1).geometry]

\* grids a chunk may hold: of one voxel type, or a top layer over STONE
Uniform(v) ==
  [x \in 0..(ChunkSize - 1) |-> [y \in 0..(MeshHeight - 1) |-> [z \in 0..(ChunkSize - 1) |-> v]]]
Layered(top) ==
  [x \in 0..(ChunkSize - 1) |->
     [y \in 0..(MeshHeight - 1) |->
        [z \in 0..(ChunkSize - 1) |-> IF y = MeshHeight - 1 THEN top ELSE STONE]]]
MeshGrids == {Uniform(STONE), Uniform(AIR), Layered(GRASS), Layered(WATER)}

\* the positions and types updateVoxel is called with: three corners of the
\* grid, and positions outside it
EditCells ==
  {<<0, 0, 0>>, <<0, MeshHeight - 1, 0>>, <<ChunkSize - 1, MeshHeight - 1, ChunkSize - 1>>,
   <<-1, 0, 0>>, <<0, MeshHeight, 0>>}
EditTypes == {AIR, STONE}

UpdateVoxel(c, newType) ==
  /\ lastEdit' = [x |-> c[1], y |-> c[2], z |-> c[3], type |-> newType,
                  found |-> IF c[1] \in 0..(ChunkSize - 1) /\ c[2] \in 0..(MeshHeight - 1)
                               /\ c[3] \in 0..(ChunkSize - 1)
                            THEN meshChunk.terrainData[c[1]][c[2]][c[3]]
                            ELSE NullVoxel]
  /\ \E after \in {updateVoxelAndMesh(meshChunk, c[1], c[2], c[3], newType)} :
        meshChunk' = after
  /\ UNCHANGED outsideMesh

InitMesh ==
  /\ ChunkManagerInit
  /\ GenIdle
  /\ PathIdle
  /\ SampleIdle
  /\ MobIdle
  /\ BootIdle
  /\ RegenIdle
  /\ WalkIdle
  /\ PhysIdle
  /\ SpawnIdle
  /\ meshChunk \in {MeshChunkOf(g) : g \in MeshGrids}
  /\ lastEdit = <<>>

MeshNext == \E c \in EditCells, newType \in EditTypes : UpdateVoxel(c, newType)

SpecMesh == InitMesh /\ [][MeshNext]_vars

\* the unit faces of the grid between a voxel that is not AIR and AIR or the
\* outside of the chunk
Directions ==
  {<<1, 0, 0>>, <<-1, 0, 0>>, <<0, 1, 0>>, <<0, -1, 0>>, <<0, 0, 1>>, <<0, 0, -1>>}
ExposedFaces(chunk) ==
  {f \in ((0..(chunk.size - 1)) \X (DOMAIN chunk.terrainData[0]) \X (0..(chunk.size - 1)))
           \X Directions :
     /\ getVoxel(chunk, f[1][1], f[1][2], f[1][3]) # AIR
     /\ getVoxel(chunk, f[1][1] + f[2][1], f[1][2] + f[2][2], f[1][3] + f[2][3]) = AIR}

AllStone(chunk) ==
  \A x \in 0..(chunk.size - 1), y \in DOMAIN chunk.terrainData[0], z \in 0..(chunk.size - 1) :
    chunk.terrainData[x][y][z] = STONE

\* the quads of the geometry on slice s of axis d
QuadsOn(geometry, d, s) == {n \in 1..Len(geometry) : geometry[n].d = d /\ geometry[n].slice = s}

EvictedFrom(chunk) ==
  deleteChunks([chunks |-> (getChunkKey(chunk.x, chunk.z) :> 1), modifiedChunks |-> <<>>,
                heap |-> (1 :> chunk), loadingChunks |-> FALSE, loadingChunksKeys |-> <<>>,
                loadCounter |-> LoadCounterReset, firstChunksLoaded |-> TRUE,
                loadedFromCache |-> <<>>],
               chunk.x + FarChunk, chunk.z)

\* C20: an updateVoxel call with an in-range position and the value the voxel
\* already has leaves the grid as it was, leaves the chunk marked modified, so
\* that an eviction keeps it in the modified cache, leaves the mesh with the
\* geometry a rebuild without the edit gives, and keeps the Mesh object
C20_SameValueEdit ==
  [][lastEdit'.found = lastEdit'.type =>
       /\ meshChunk'.terrainData = meshChunk.terrainData
       /\ meshChunk'.modified
       /\ getChunkKey(meshChunk'.x, meshChunk'.z) \notin DOMAIN EvictedFrom(meshChunk').chunks
       /\ getChunkKey(meshChunk'.x, meshChunk'.z)
            \in DOMAIN EvictedFrom(meshChunk').modifiedChunks
       /\ meshChunk'.geometry = rebuildMesh(meshChunk).geometry
       /\ meshChunk'.mesh = meshChunk.mesh]_vars

\* the last call wrote the value the voxel had, a solid one, into a grid that
\* holds both solid voxels and AIR
C20_Witness ==
  /\ lastEdit # <<>>
  /\ lastEdit.found = lastEdit.type
  /\ lastEdit.type = STONE
  /\ meshChunk.modified
  /\ ~AllStone(meshChunk)

\* ---------------------------------------------------------------------------
\* Water of the generated grid

\* the grid right after the waterFilling stage of the call
WaterFilled ==
  LET heightMap == generateHeightMap(GenConfig, genOracle, GenSize)
  IN  waterFilling(GenConfig,
                   terrainShaping(GenConfig, initializeChunk(GenConfig, GenSize),
                                  heightMap, GenSize),
                   heightMap, GenSize)

\* C17: in the grid generateChunk returns, a column whose surface height is
\* below sea level holds WATER at every y above the surface up to sea level,
\* and the grid the waterFilling stage leaves holds no WATER above sea level
C17_WaterUpToSeaLevel ==
  genData # <<>> =>
    \A x \in Cols(GenSize), z \in Cols(GenSize) :
      LET height == generateHeightMap(GenConfig, genOracle, GenSize)[x][z].height
      IN  /\ height < GenConfig.seaLevel =>
               \A y \in Ys(GenConfig) :
                  (height < y /\ y <= GenConfig.seaLevel) => genData[x][y][z] = WATER
          /\ \A y \in Ys(GenConfig) :
                y > GenConfig.seaLevel => WaterFilled[x][y][z] # WATER

\* a generated grid with a column under water and a cave carved at sea level
C17_Witness ==
  /\ genData # <<>>
  /\ \E c \in 1..Len(genOracle.caves) : genOracle.caves[c].start[2] = SeaLevel
  /\ \E x \in Cols(GenSize), z \in Cols(GenSize) :
        /\ generateHeightMap(GenConfig, genOracle, GenSize)[x][z].height < SeaLevel
        /\ genData[x][SeaLevel][z] = WATER
        /\ \E x2 \in Cols(GenSize), z2 \in Cols(GenSize) :
              generateHeightMap(GenConfig, genOracle, GenSize)[x2][z2].height > SeaLevel

\* ---------------------------------------------------------------------------
\* ChunkManager.closestFreeSpace

\* the search radius (maxRadius, 100 in the code); MaxRadius layers cover the
\* worlds below from every start
MaxRadius == 4

\* isVoxelFree: the voxel is in a chunk the manager holds and has this type
isVoxelFree(m, globalX, globalY, globalZ, voxelType) ==
  LET ref == getChunkAt(m, FloorDiv(globalX, ChunkSize), FloorDiv(globalZ, ChunkSize))
  IN  IF ref = <<>> THEN FALSE
      ELSE LET chunk == m.heap[ref[1]]
               localX == globalX - chunk.x * ChunkSize
               localZ == globalZ - chunk.z * ChunkSize
           IN  IF localX < 0 \/ localX >= chunk.size \/ localZ < 0 \/ localZ >= chunk.size
               THEN FALSE
               ELSE IF globalY < 0 \/ globalY >= Cardinality(DOMAIN chunk.terrainData[localX])
               THEN FALSE
               ELSE chunk.terrainData[localX][globalY][localZ] = voxelType

\* isValidCandidate: of the diagonals it tests (x+1, z+1) and (x-1, z-1), each twice
isValidCandidate(m, x, y, z) ==
  /\ isVoxelFree(m, x, y, z, AIR)
  /\ isVoxelFree(m, x, y + 1, z, AIR)
  /\ isVoxelFree(m, x + 1, y, z, AIR)
  /\ isVoxelFree(m, x - 1, y, z, AIR)
  /\ isVoxelFree(m, x, y, z + 1, AIR)
  /\ isVoxelFree(m, x, y, z - 1, AIR)
  /\ isVoxelFree(m, x + 1, y, z + 1, AIR)
  /\ isVoxelFree(m, x - 1, y, z - 1, AIR)
  /\ isVoxelFree(m, x - 1, y, z - 1, AIR)
  /\ isVoxelFree(m, x + 1, y, z + 1, AIR)
  /\ isVoxelFree(m, x, y - 1, z, GRASS)

\* the candidates the loops of layer r accept when none was found before
LayerCandidates(m, start, r) ==
  {c \in ((-r)..r) \X ((-r)..r) \X ((-r)..r) :
     /\ start[2] + c[2] >= WorldConfig.seaLevel
     /\ isValidCandidate(m, start[1] + c[1], start[2] + c[2], start[3] + c[3])}

\* the candidate the layer ends with: the nearest, and among equally near ones
\* the first in loop order (dx, then dy, then dz)
BestOf(cands) ==
  CHOOSE c \in cands :
    \A o \in cands :
      LET dc == c[1] * c[1] + c[2] * c[2] + c[3] * c[3]
          do == o[1] * o[1] + o[2] * o[2] + o[3] * o[3]
      IN  \/ dc < do
          \/ /\ dc = do
             /\ \/ c[1] < o[1]
                \/ c[1] = o[1] /\ c[2] < o[2]
                \/ c[1] = o[1] /\ c[2] = o[2] /\ c[3] <= o[3]

RECURSIVE SearchLayers(_, _, _)
SearchLayers(m, start, r) ==
  IF r > MaxRadius THEN [found |-> FALSE, position |-> start]
  ELSE CHOOSE out \in
         {IF cands = {} THEN SearchLayers(m, start, r + 1)
          ELSE [found |-> TRUE,
                position |-> <<start[1] + BestOf(cands)[1], start[2] + BestOf(cands)[2] + 1,
                               start[3] + BestOf(cands)[3]>>] :
          cands \in {LayerCandidates(m, start, r)}} : TRUE

\* closestFreeSpace(position) for a position with integer coordinates
closestFreeSpace(m, start) == SearchLayers(m, start, 0)

\* the columns around column (0, 0) and the worlds the search runs in: GRASS
\* at sea level, one block higher on a set of columns around (0, 0)
Ring == {c \in (-1..1) \X (-1..1) : c # <<0, 0>>}
SpawnKeys == {getChunkKey(cx, cz) : cx \in -1..0, cz \in -1..0}
SpawnGround(raised, gx, gz) == IF <<gx, gz>> \in raised THEN SeaLevel + 1 ELSE SeaLevel
SpawnChunk(raised, cx, cz) ==
  [x |-> cx, z |-> cz, size |-> ChunkSize,
   terrainData |->
     [x \in Cols(ChunkSize) |-> [y \in Ys(WorldConfig) |-> [z \in Cols(ChunkSize) |->
        LET ground == SpawnGround(raised, cx * ChunkSize + x, cz * ChunkSize + z)
        IN  IF y = 0 THEN BEDROCK
            ELSE IF y < ground THEN STONE
            ELSE IF y = ground THEN GRASS
            ELSE AIR]]],
   modified |-> FALSE]
SpawnRef(key) == (key[1] + 1) * 2 + (key[2] + 1) + 1

SpawnStarts == {<<0, 0, 0>>, <<0, SeaLevel + 1, 0>>}

\* spawnStart: the search for a free position, once
SpawnStart(start) ==
  /\ spawnResult = <<>>
  /\ spawnResult' = closestFreeSpace(Manager, start)
  /\ UNCHANGED outsideSpawn

InitSpawn ==
  /\ \E raised \in SUBSET Ring :
        /\ chunks = [key \in SpawnKeys |-> SpawnRef(key)]
        /\ heap = [ref \in {SpawnRef(key) : key \in SpawnKeys} |->
                     LET key == CHOOSE k \in SpawnKeys : SpawnRef(k) = ref
                     IN  SpawnChunk(raised, key[1], key[2])]
  /\ modifiedChunks = <<>>
  /\ loadingChunks = FALSE
  /\ loadingChunksKeys = <<>>
  /\ loadCounter = LoadCounterReset
  /\ firstChunksLoaded = TRUE
  /\ playerChunk = <<0, 0>>
  /\ loadedFromCache = <<>>
  /\ editedGrid = <<>>
  /\ restores = 0
  /\ GenIdle
  /\ PathIdle
  /\ SampleIdle
  /\ MobIdle
  /\ BootIdle
  /\ RegenIdle
  /\ WalkIdle
  /\ PhysIdle
  /\ MeshIdle
  /\ SpawnIdle

SpawnNext == \E start \in SpawnStarts : SpawnStart(start)

SpecSpawn == InitSpawn /\ [][SpawnNext]_vars

\* the voxel at a global position, NullVoxel where the manager holds no chunk
SpawnVoxel(x, y, z) ==
  LET ref == getChunkAt(Manager, FloorDiv(x, ChunkSize), FloorDiv(z, ChunkSize))
  IN  IF ref = <<>> \/ y \notin Ys(WorldConfig) THEN NullVoxel
      ELSE heap[ref[1]].terrainData[x - FloorDiv(x, ChunkSize) * ChunkSize][y]
                                   [z - FloorDiv(z, ChunkSize) * ChunkSize]

\* C18: a position the search found is one above a candidate voxel at or above
\* sea level that is AIR, with AIR above it, AIR at its four axis neighbours
\* and its four diagonal neighbours, and GRASS below it
C18_FreeSpaceAroundCandidate ==
  (spawnResult # <<>> /\ spawnResult.found) =>
    LET x == spawnResult.position[1]
        y == spawnResult.position[2] - 1
        z == spawnResult.position[3]
    IN  /\ y >= WorldConfig.seaLevel
        /\ SpawnVoxel(x, y, z) = AIR
        /\ SpawnVoxel(x, y + 1, z) = AIR
        /\ \A c \in Ring : SpawnVoxel(x + c[1], y, z + c[2]) = AIR
        /\ SpawnVoxel(x, y - 1, z) = GRASS

\* ---------------------------------------------------------------------------
\* Pathfinder.findPath called with a budget (Mob.ts calls it directly)

\* the budgets: none, too small for the arenas, and the one the manager passes
Budgets == {0, 1, 3, MaxSteps}
SearchStarts == PathStarts \cup {Centre(3, 1, 2), Centre(2, 1, 1)}

\* one call findPath(start, goal, maxSteps); searches holds the record of the
\* last call
Search(start, goal, maxSteps, tie) ==
  /\ \E r \in {findPath(Manager, playerChunk, {}, start, goal, maxSteps, tie)} :
        /\ missingChunks' = r.missingChunks
        /\ requested' = requested \cup r.requested
        /\ searches' = <<[start |-> FloorPos(start), goal |-> FloorPos(goal),
                          budget |-> maxSteps, result |-> r.result,
                          targetNode |-> r.targetNode,
                          pushed |-> Len(r.nodes), open |-> r.open, steps |-> r.steps]>>
  /\ UNCHANGED <<queue, processing, settled, issued>>
  /\ UNCHANGED outsidePath

SearchNext ==
  \E start \in SearchStarts, goal \in PathGoals, maxSteps \in Budgets, tie \in TiePolicies :
     Search(start, goal, maxSteps, tie)

SpecSearch == InitPath /\ [][SearchNext]_vars

\* C19: a findPath call removes at most maxSteps nodes from the open set, one
\* in each pass of its loop, and a call that ends without having removed the
\* goal node returns no path: null or an empty array
C19_BudgetBoundsSearch ==
  \A n \in 1..Len(searches) :
    LET s == searches[n]
        passes == IF s.steps > s.budget THEN s.budget ELSE s.steps
    IN  /\ s.pushed - Cardinality(s.open) = passes
        /\ passes <= s.budget
        /\ s.targetNode = 0 => (s.result.null \/ s.result.path = <<>>)

\* a call whose budget ran out with nodes still open and the goal not removed
C19_Witness ==
  \E n \in 1..Len(searches) :
     /\ searches[n].budget > 0
     /\ searches[n].steps > searches[n].budget
     /\ searches[n].open # {}
     /\ searches[n].targetNode = 0
     /\ ~searches[n].result.null
     /\ searches[n].result.path = <<>>

(***************************************************************************)
(* Eviction and regeneration of unedited chunks: update calls with the     *)
(* observer in chunk 0 or far from it, with the record of the grids the    *)
(* evicted chunks had                                                      *)
(***************************************************************************)
\* one frame: ChunkManager.update(playerPosition); the chunks the call drops from
\* the active map without keeping them in modifiedChunks are recorded
UpdateAndEvict(px, pz) ==
  \E m \in {update(Manager, px, pz)} :
  \E dropped \in {(DOMAIN chunks \ DOMAIN m.chunks) \ DOMAIN m.modifiedChunks} :
      /\ SetManager(m)
      /\ playerChunk' = <<FloorDiv(px, ChunkSize), FloorDiv(pz, ChunkSize)>>
      /\ evictedGrid' = [key \in DOMAIN evictedGrid \cup dropped |->
                           IF key \in dropped THEN heap[chunks[key]].terrainData
                           ELSE evictedGrid[key]]
      /\ UNCHANGED outsideRegen

InitRegen ==
  /\ ChunkManagerInit
  /\ GenIdle
  /\ PathIdle
  /\ SampleIdle
  /\ MobIdle
  /\ BootIdle
  /\ WalkIdle
  /\ PhysIdle
  /\ MeshIdle
  /\ SpawnIdle
  /\ RegenIdle

RegenNext == \E px \in ObserverXs, pz \in ObserverZs : UpdateAndEvict(px, pz)

SpecRegen == InitRegen /\ [][RegenNext]_vars

C22_GoalPoppedReturnsPath ==
  \A i \in 1..Len(searches) :
     searches[i].targetNode # 0 =>
        /\ ~searches[i].result.null
        /\ searches[i].result.path = PathTo(searches[i].nodes, searches[i].targetNode)

\* the candidates a recorded search tested: those of every node it popped
\* first, the goal node apart
Examined(s) ==
  {Candidate(pos, i) : pos \in s.closed \ {s.goal}, i \in 1..CandidateCount}

\* chunk keys of the tested candidates that were not active during the search
UnloadedExamined(s) ==
  {k \in {getChunkKey(FloorDiv(c[1], ChunkSize), FloorDiv(c[3], ChunkSize)) : c \in Examined(s)} :
     k \notin s.active}

\* C23: a search asks for the load of exactly the unloaded chunks it met within
\* render distance of the player's chunk on both axes, and returns the
\* missing-chunks signal exactly when it asked for one; unloaded chunks farther
\* away cause neither
C23_RequestsWithinRenderDistance ==
  \A i \in 1..Len(searches) :
     /\ searches[i].requested =
          {k \in UnloadedExamined(searches[i]) :
             /\ Abs(k[1] - playerChunk[1]) <= RenderDistance
             /\ Abs(k[2] - playerChunk[2]) <= RenderDistance}
     /\ searches[i].result.null <=> searches[i].requested # {}

\* a search met an unloaded chunk beyond render distance and returned a path
C23_Witness ==
  \E i \in 1..Len(searches) :
     /\ \E k \in UnloadedExamined(searches[i]) : Abs(k[1] - playerChunk[1]) > RenderDistance
     /\ ~searches[i].result.null
     /\ searches[i].targetNode # 0

(***************************************************************************)
(* Claims about the quads of a layer                                       *)
(***************************************************************************)
\* the quads of slice s of axis d that cover cell n of the slice's mask
Covering(geometry, d, s, dimU, n) ==
  {q \in QuadsOn(geometry, d, s) :
     /\ geometry[q].i <= n % dimU /\ n % dimU < geometry[q].i + geometry[q].w
     /\ geometry[q].j <= n \div dimU /\ n \div dimU < geometry[q].j + geometry[q].h}

\* C24: in every layer the quads partition the masked cells: a cell that
\* records a face lies under exactly one quad, of the cell's voxel type and
\* orientation, a cell that records none lies under no quad, and every quad
\* lies within the layer
C24_QuadsPartitionMask ==
  \A d \in 0..2 : \A s \in 0..Dims(meshChunk)[d] :
     \E mask \in {Mask(meshChunk, d, s)} :
        /\ \A q \in QuadsOn(meshChunk.geometry, d, s) :
              /\ meshChunk.geometry[q].i + meshChunk.geometry[q].w <= Dims(meshChunk)[(d + 1) % 3]
              /\ meshChunk.geometry[q].j + meshChunk.geometry[q].h <= Dims(meshChunk)[(d + 2) % 3]
        /\ \A n \in DOMAIN mask :
              \E covering \in {Covering(meshChunk.geometry, d, s, Dims(meshChunk)[(d + 1) % 3], n)} :
                 IF mask[n] = NullCell THEN covering = {}
                 ELSE /\ Cardinality(covering) = 1
                      /\ \A q \in covering :
                            /\ meshChunk.geometry[q].voxel = mask[n].voxel
                            /\ meshChunk.geometry[q].backface = mask[n].backface

\* after an edit, a layer has cells with and without a face, under quads of
\* two voxel types, one of them merged from several cells
C24_Witness ==
  /\ lastEdit # <<>>
  /\ \E d \in 0..2 : \E s \in 0..Dims(meshChunk)[d] :
        /\ \E n \in DOMAIN Mask(meshChunk, d, s) : Mask(meshChunk, d, s)[n] = NullCell
        /\ \E q1, q2 \in QuadsOn(meshChunk.geometry, d, s) :
              /\ meshChunk.geometry[q1].voxel # meshChunk.geometry[q2].voxel
              /\ meshChunk.geometry[q1].w * meshChunk.geometry[q1].h > 1

(***************************************************************************)
(* The frame loop goes on calling update: the streaming of SpecRegen with  *)
(* the update call taken again and again                                   *)
(***************************************************************************)
SpecSettle == SpecRegen /\ WF_vars(RegenNext)

\* the chunks of the observer positions
ObserverChunks == {<<FloorDiv(px, ChunkSize), FloorDiv(pz, ChunkSize)>> : px \in ObserverXs, pz \in ObserverZs}

\* every coordinate within load distance of chunk c is active
LoadedAround(c) ==
  \A x \in (c[1] - RenderDistance)..(c[1] + RenderDistance),
     z \in (c[2] - RenderDistance)..(c[2] + RenderDistance) : getChunkKey(x, z) \in DOMAIN chunks

\* C25: when the observer stays in one chunk from some update call on, every
\* coordinate within load distance of that chunk becomes active and stays
\* active, and from some call on no update call loads or evicts a chunk
C25_SettlesAroundObserver ==
  \A c \in ObserverChunks :
     <>[](playerChunk = c) =>
        /\ <>[]LoadedAround(c)
        /\ <>[][chunks' = chunks]_vars

\* the observer has moved away from chunk 0, the chunks around chunk 0 are
\* evicted and everything within load distance of the new chunk is active
C25_Witness ==
  /\ playerChunk # <<0, 0>>
  /\ LoadedAround(playerChunk)
  /\ ~loadingChunks
  /\ getChunkKey(0, 0) \in DOMAIN evictedGrid
  /\ getChunkKey(0, 0) \notin DOMAIN chunks

(***************************************************************************)
(* Start-up: the animation frames of main.ts from construction until the   *)
(* player has spawned (controls.update, world.update, player.update), with *)
(* the key events that arrive between frames.  The physics of the frames   *)
(* after the spawn is the subject of SpecPhysics.                          *)
(***************************************************************************)
ControlsSpeed == 6

\* Player's constructor: position (0, 250, 0)
PlayerStart == [x |-> 0, y |-> 250 * Voxel, z |-> 0]

\* keydown of KeyW (a repeated keydown changes nothing)
KeyDown ==
  /\ frameAt = "controls"
  /\ ~moveForward
  /\ moveForward' = TRUE
  /\ UNCHANGED <<cmVars, physVars, playing, frameAt, firstQueue, activated, wasLoaded,
                 outsideBoot>>

\* keyup of KeyW
KeyUp ==
  /\ frameAt = "controls"
  /\ moveForward
  /\ moveForward' = FALSE
  /\ UNCHANGED <<cmVars, physVars, playing, frameAt, firstQueue, activated, wasLoaded,
                 outsideBoot>>

\* Controls.update(delta) with the yaw the constructor leaves (0): forward is
\* (0, 0, 1) and moveForward adds forward * (-speed * delta) to the position;
\* delta in ms, speed in voxels per second
ControlsUpdate(delta) ==
  /\ frameAt = "controls"
  /\ position' = IF moveForward
                 THEN [position EXCEPT !.z = @ - ControlsSpeed * delta * (Voxel \div 1000)]
                 ELSE position
  /\ frameAt' = "world"
  /\ UNCHANGED <<cmVars, velocity, onFloor, onWater, resolverCalls, stillColliding,
                 playing, moveForward, firstQueue, activated, wasLoaded, outsideBoot>>

\* World.update(delta, player.position): ChunkManager.update(playerPosition)
WorldUpdate ==
  /\ frameAt = "world"
  /\ \E px \in {FloorDiv(position.x, Voxel)}, pz \in {FloorDiv(position.z, Voxel)} :
     \E m \in {update(Manager, px, pz)} :
       /\ SetManager(m)
       /\ playerChunk' = <<FloorDiv(px, ChunkSize), FloorDiv(pz, ChunkSize)>>
       /\ firstQueue' =
            IF firstQueue = {} /\ ~loadingChunks
            THEN LET cx == FloorDiv(px, ChunkSize)
                     cz == FloorDiv(pz, ChunkSize)
                     queued == SetChunksToLoad(deleteChunks(Manager, cx, cz), cx, cz)
                 IN  {queued.loadingChunksKeys[n] : n \in 1..Len(queued.loadingChunksKeys)}
            ELSE firstQueue
       /\ activated' = activated \cup (DOMAIN m.chunks \ DOMAIN chunks)
       /\ wasLoaded' = (wasLoaded \/ m.firstChunksLoaded)
  /\ frameAt' = "player"
  /\ UNCHANGED <<physVars, playing, moveForward, outsideBoot>>

\* Player.update(delta) up to and including spawnStart: nothing while the
\* world is not loaded; in a loaded world the player that is not playing yet
\* is put at getClosestFreePosition((0, 0, 0))
PlayerUpdateUntilSpawn ==
  /\ frameAt = "player"
  /\ IF ~firstChunksLoaded
     THEN /\ frameAt' = "controls"
          /\ UNCHANGED <<position, playing>>
     ELSE \E spot \in {closestFreeSpace(Manager, <<0, 0, 0>>)} :
            /\ position' = [x |-> spot.position[1] * Voxel, y |-> spot.position[2] * Voxel,
                            z |-> spot.position[3] * Voxel]
            /\ playing' = TRUE
            /\ frameAt' = "physics"
  /\ UNCHANGED <<cmVars, velocity, onFloor, onWater, resolverCalls, stillColliding,
                 moveForward, firstQueue, activated, wasLoaded, outsideBoot>>

InitBoot ==
  /\ ChunkManagerInit
  /\ GenIdle
  /\ PathIdle
  /\ SampleIdle
  /\ MobIdle
  /\ BootIdle
  /\ RegenIdle
  /\ WalkIdle
  /\ MeshIdle
  /\ SpawnIdle
  /\ position = PlayerStart
  /\ velocity = Origin
  /\ onFloor = FALSE
  /\ onWater = FALSE
  /\ resolverCalls = 0
  /\ stillColliding = FALSE

BootNext ==
  \/ KeyDown
  \/ KeyUp
  \/ \E delta \in Deltas : ControlsUpdate(delta)
  \/ WorldUpdate
  \/ PlayerUpdateUntilSpawn

SpecBoot == InitBoot /\ [][BootNext]_vars

\* the part of the start-up that the chunk manager alone decides:
\* isWorldLoaded() is false until a first queue exists, true only when every
\* key of that queue has been made active, and true ever after
LoadedFlagSound ==
  /\ firstQueue = {} => ~firstChunksLoaded
  /\ firstChunksLoaded => firstQueue # {} /\ firstQueue \subseteq activated
  /\ wasLoaded => firstChunksLoaded

\* C26: isWorldLoaded() is false at first, becomes true only after every key of
\* the first load queue has been made active and then stays true, and while it
\* is false the player has not spawned and is where the constructor put it
C26_LoadedBeforeSpawnOrMove ==
  /\ LoadedFlagSound
  /\ ~firstChunksLoaded => ~playing /\ position = PlayerStart

(***************************************************************************)
(* The request queue under repeated update calls: requests arrive, update  *)
(* runs searches that return or throw, requested chunks are loaded         *)
(***************************************************************************)
\* one update call; which of several least-f nodes the search pops first only
\* changes the path it returns, and the oldest is taken here
QueueUpdate == \E threw \in BOOLEAN : SearchAndSettle("oldest", threw)

QueueNext ==
  \/ \E start \in PathStarts, goal \in PathGoals : RequestPath(start, goal)
  \/ QueueUpdate
  \/ \E key \in ArenaChunkKeys : LoadRequestedChunk(key)

\* the queue is watched in the world where searches meet unloaded chunks
InitQueue ==
  /\ ArenaInit("detour")
  /\ GenIdle
  /\ PathIdle
  /\ SampleIdle
  /\ MobIdle
  /\ BootIdle
  /\ RegenIdle
  /\ WalkIdle
  /\ PhysIdle
  /\ MeshIdle
  /\ SpawnIdle

\* update is called again and again
SpecQueue == InitQueue /\ [][QueueNext]_vars /\ WF_vars(QueueUpdate)

\* a promise is settled at most once, a resolved one with what the search of
\* that request returned
SettledOnce ==
  \A id \in DOMAIN settled :
     /\ settled[id].times = 1
     /\ ~(\E i \in 1..Len(queue) : queue[i].id = id)
     /\ settled[id].kind = "resolved" =>
           \E n \in 1..Len(searches) :
              searches[n].id = id /\ searches[n].result = settled[id].value
     /\ settled[id].kind = "rejected" =>
           ~(\E n \in 1..Len(searches) : searches[n].id = id)

\* C27: with update called again and again every submitted request is settled
\* in the end, exactly once, resolved with the search result or rejected when
\* the search threw; requests behind a throwing search are settled too, and
\* processing is false between update calls
C27_EveryRequestSettledOnce ==
  /\ [](~processing)
  /\ []SettledOnce
  /\ \A id \in 1..MaxRequests : [](issued >= id => <>(id \in DOMAIN settled))

\* a request was rejected and a request submitted with it in the queue was
\* resolved after it
C27_Witness ==
  \E a, b \in DOMAIN settled :
     /\ a < b
     /\ settled[a].kind = "rejected"
     /\ settled[b].kind = "resolved"
     /\ ~processing

(***************************************************************************)
(* Mobs (Mob.ts, the class that asks the PathfindingManager): positions    *)
(* and displacements in thousandths of a voxel, times in ms.  Mob updates, *)
(* queue updates, chunk loads and the promises' callbacks interleave       *)
(* freely.                                                                 *)
(***************************************************************************)
Milli == Voxel \div 1000
MobSpeed == 2
RecomputeInterval == 500
MobGravity == 25
MobMaxVerticalVelocity == 50
SnapDistance == 10

\* cap on the Mob.update calls in a run, all mobs together
MaxMobUpdates == 7

Mobs == {1, 2}

\* what the mob actions leave alone
outsideMob == <<cmVars, obsVars, genVars, walkVars, physVars, meshVars, spawnVars,
                regenVars, bootVars, sampleVars>>

\* Math.floor of a coordinate given in thousandths
FloorMilli(c) == FloorDiv(c, Milli)

\* c * num / den, rounded towards zero
Scale(c, num, den) == IF c >= 0 THEN (c * num) \div den ELSE -(((-c) * num) \div den)

\* Vector3.length(), rounded down to a thousandth
Length(d) ==
  LET n == d[1] * d[1] + d[2] * d[2] + d[3] * d[3]
      sum == Abs(d[1]) + Abs(d[2]) + Abs(d[3])
  IN  IF Cardinality({i \in 1..3 : d[i] # 0}) <= 1 THEN sum
      ELSE CHOOSE r \in 0..sum : r * r <= n /\ n < (r + 1) * (r + 1)

\* the condition of update's first if, with the pending test left out
ShouldRequest_IgnoresPending(me) ==
  \/ Len(me.path.path) = 0
  \/ me.pathIndex >= Len(me.path.path)
  \/ me.timeSinceLastPath > RecomputeInterval

\* the condition of update's first if
ShouldRequest(me) ==
  /\ \/ Len(me.path.path) = 0
     \/ me.pathIndex >= Len(me.path.path)
     \/ me.timeSinceLastPath > RecomputeInterval
  /\ me.pendingPath = 0

\* update's second if: the step towards path[pathIndex]
FollowPath(m, pchunk, me, delta) ==
  IF ~(Len(me.path.path) > 0 /\ me.pathIndex < Len(me.path.path)) THEN me
  ELSE LET way == me.path.path[me.pathIndex + 1]
           next == <<way[1] * Milli, way[2] * Milli, way[3] * Milli>>
           dir == <<next[1] - me.position[1], next[2] - me.position[2],
                    next[3] - me.position[3]>>
       IN  CHOOSE out \in
             {IF dist < SnapDistance
              THEN [me EXCEPT !.position = next, !.pathIndex = @ + 1]
              ELSE LET stepLength == Min(MobSpeed * delta, dist)
                       step == <<Scale(dir[1], stepLength, dist), Scale(dir[2], stepLength, dist),
                                 Scale(dir[3], stepLength, dist)>>
                       newPos == <<me.position[1] + step[1], me.position[2] + step[2],
                                   me.position[3] + step[3]>>
                       fx == FloorMilli(newPos[1])
                       fy == FloorMilli(newPos[2])
                       fz == FloorMilli(newPos[3])
                       ground == getVoxelType(m, fx, fy - 1, fz)
                       head == getVoxelType(m, fx, fy, fz)
                       above == getVoxelType(m, fx, fy + 1, fz)
                       walkableStep == /\ ground # NullVoxel
                                       /\ ground # AIR
                                       /\ head = AIR
                                       /\ above = AIR
                   IN  IF walkableStep /\ isWalkable(m, pchunk, way[1], way[2], way[3], FALSE).walkable
                       THEN [me EXCEPT !.velocity = step, !.position = newPos]
                       ELSE [me EXCEPT !.path = [null |-> FALSE, path |-> <<>>], !.pathIndex = 0] :
              dist \in {Length(dir)}} : TRUE

\* the end of update: the ground test that stands for gravity, and onWater
GroundCheck(m, me, delta) ==
  LET below == getVoxelType(m, FloorMilli(me.position[1]), FloorMilli(me.position[2]) - 1,
                            FloorMilli(me.position[3]))
      vy == Max(Min(me.velocity[2] - MobGravity * delta, MobMaxVerticalVelocity * Milli),
                -(MobMaxVerticalVelocity * Milli))
      fallen == IF below = NullVoxel \/ below = AIR
                THEN [me EXCEPT !.onFloor = FALSE, !.velocity[2] = vy,
                                !.position[2] = @ + FloorDiv(vy * delta, Milli)]
                ELSE [me EXCEPT !.onFloor = TRUE, !.velocity[2] = 0]
  IN  [fallen EXCEPT !.onWater =
         (getVoxelType(m, FloorMilli(fallen.position[1]), FloorMilli(fallen.position[2]),
                       FloorMilli(fallen.position[3])) = WATER)]

\* the update calls of all mobs so far
UpdatesSoFar ==
  Cardinality({c \in (DOMAIN mobs) \X (1..MaxMobUpdates) : c[2] <= mobs[c[1]].updates})

\* a Vector3 in thousandths as requestPath's argument, in half voxels
HalfVoxels(p) == <<FloorDiv(p[1], Milli \div 2), FloorDiv(p[2], Milli \div 2),
                   FloorDiv(p[3], Milli \div 2)>>

\* Mob.update(delta, target).  Reading this.path.length of a null path raises
\* a TypeError that ends the call after the timer was advanced.  The promise
\* of requestPath is kept as the id of the request, 0 for null.
MobUpdate(mob, target, delta) ==
  /\ UpdatesSoFar < MaxMobUpdates
  /\ IF mobs[mob].path.null
     THEN /\ mobs' = [mobs EXCEPT ![mob].timeSinceLastPath = @ + delta,
                                  ![mob].updates = @ + 1]
          /\ mobThrew' = mobThrew \cup {mob}
          /\ UNCHANGED <<queue, issued, owner>>
     ELSE \E timed \in {[mobs[mob] EXCEPT !.timeSinceLastPath = @ + delta, !.updates = @ + 1]} :
          \E asks \in {ShouldRequest(timed)} :
            /\ asks => issued < MaxRequests
            /\ queue' = IF asks
                        THEN Append(queue, [id |-> issued + 1,
                                            start |-> HalfVoxels(timed.position),
                                            goal |-> target])
                        ELSE queue
            /\ issued' = IF asks THEN issued + 1 ELSE issued
            /\ owner' = IF asks THEN Put(owner, issued + 1, mob) ELSE owner
            /\ \E asked \in {IF asks THEN [timed EXCEPT !.pendingPath = issued + 1,
                                                        !.timeSinceLastPath = 0]
                             ELSE timed} :
               \E moved \in {FollowPath(Manager, playerChunk, asked, delta)} :
                  mobs' = [mobs EXCEPT ![mob] = GroundCheck(Manager, moved, delta)]
            /\ UNCHANGED mobThrew
  /\ UNCHANGED <<processing, settled, missingChunks, requested, searches, reacted>>
  /\ UNCHANGED outsideMob

\* the callbacks Mob.update attached to the promise of request id, run once
\* the promise is settled: then(path => ...) or catch(() => ...)
PromiseReaction(id) ==
  /\ id \in DOMAIN settled
  /\ id \in DOMAIN owner
  /\ id \notin reacted
  /\ reacted' = reacted \cup {id}
  /\ mobs' = IF settled[id].kind = "resolved"
             THEN [mobs EXCEPT ![owner[id]].path = settled[id].value,
                               ![owner[id]].pathIndex = 0,
                               ![owner[id]].pendingPath = 0]
             ELSE [mobs EXCEPT ![owner[id]].pendingPath = 0]
  /\ UNCHANGED <<owner, mobThrew, pathVars>>
  /\ UNCHANGED outsideMob

\* a mob as its constructor leaves it, at the place spawnNightMobs found
NewMob(at) ==
  [position |-> at, velocity |-> <<0, 0, 0>>, onFloor |-> FALSE, onWater |-> FALSE,
   path |-> [null |-> FALSE, path |-> <<>>], pathIndex |-> 0, pendingPath |-> 0,
   timeSinceLastPath |-> 0, updates |-> 0]

\* the centre of a column, one above its ground
MobSpawn(x, y, z) == <<x * Milli + Milli \div 2, (y + 1) * Milli, z * Milli + Milli \div 2>>

MobArenas == {"flat", "detour"}

InitMob ==
  /\ \E arena \in MobArenas : ArenaInit(arena)
  /\ GenIdle
  /\ PathIdle
  /\ SampleIdle
  /\ BootIdle
  /\ RegenIdle
  /\ WalkIdle
  /\ PhysIdle
  /\ MeshIdle
  /\ SpawnIdle
  /\ mobs = [mob \in Mobs |-> NewMob(MobSpawn(mob, 0, 1))]
  /\ owner = <<>>
  /\ reacted = {}
  /\ mobThrew = {}

\* MobManager.update hands every mob the player's position: the observer
\* stands on column (5, 1)
MobTarget == Centre(5, 1, 1)

MobNext ==
  \/ \E mob \in Mobs : MobUpdate(mob, MobTarget, MaxDelta)
  \/ QueueUpdate
  \/ \E key \in ArenaChunkKeys : LoadRequestedChunk(key)
  \/ \E id \in 1..MaxRequests : PromiseReaction(id)

SpecMob == InitMob /\ [][MobNext]_vars

\* the requests of a mob whose callback has not run yet
Outstanding(mob) == {id \in DOMAIN owner : owner[id] = mob /\ id \notin reacted}

\* C28: a mob has at most one outstanding path request at any time, and its
\* pending marker is set exactly while it has one: update does not ask again
\* before the callback of the earlier request has run, and the callback of a
\* resolved or rejected request clears the marker
C28_OneOutstandingRequest ==
  \A mob \in DOMAIN mobs :
     /\ Cardinality(Outstanding(mob)) <= 1
     /\ Outstanding(mob) = IF mobs[mob].pendingPath = 0 THEN {}
                           ELSE {mobs[mob].pendingPath}

\* a mob asked again after a request of its own was rejected and its callback
\* had run
C28_Witness ==
  \E mob \in DOMAIN mobs, a, b \in DOMAIN owner :
     /\ a < b
     /\ owner[a] = mob
     /\ owner[b] = mob
     /\ a \in reacted
     /\ settled[a].kind = "rejected"
     /\ mobs[mob].pendingPath = b

\* C29: a mob's path is never null, so no Mob.update fails reading its length
C29_PathNeverNull ==
  \A mob \in DOMAIN mobs : ~mobs[mob].path.null /\ mob \notin mobThrew

(***************************************************************************)
(* The environment sampling of processCollisionsAndEnvironment             *)
(* (Physics.ts): the y indices it reads in the column under the foot, for  *)
(* columns as generation and edits leave them and entities at any height   *)
(***************************************************************************)
\* what the sampling leaves alone
outsideSample == <<cmVars, obsVars, genVars, pathVars, walkVars, physVars, meshVars,
                   spawnVars, regenVars, bootVars, mobVars>>

\* the y indices read from terrainData[localX] for a foot inside the chunk, in
\* the order of the reads; an index outside the array gives undefined, and
\* reading [localZ] of it raises a TypeError that ends the call
EnvironmentReads(column, maxHeight, footY) ==
  LET localY == FloorDiv(footY, Voxel)
      shaderY == FloorDiv(footY + 3 * (Voxel \div 2), Voxel)
  IN  IF ~(footY >= 0 /\ footY < maxHeight * Voxel) THEN <<>>
      ELSE IF ~(localY >= 0 /\ localY < maxHeight) THEN <<>>
      ELSE IF column[localY] = WATER THEN <<localY, shaderY>>
      ELSE IF column[localY] = AIR THEN <<localY>>
      ELSE IF localY + 1 \notin DOMAIN column THEN <<localY, localY + 1>>
      ELSE IF column[localY + 1] = WATER THEN <<localY, localY + 1, shaderY>>
      ELSE <<localY, localY + 1>>

\* columns of a chunk: BEDROCK at the bottom, water only up to sea level,
\* blocks wherever terrain or the player's edits put them
SampleColumns ==
  {col \in [Ys(WorldConfig) -> {AIR, WATER, STONE, BEDROCK}] :
     \A y \in Ys(WorldConfig) :
        /\ (col[y] = BEDROCK) = (y = 0)
        /\ col[y] = WATER => y <= SeaLevel}

\* position.y of the entity, in steps of half a voxel up to above the world
SampleYs == {n * (Voxel \div 2) : n \in 0..(2 * WorldHeight + 2)}

\* the sampling of one processCollisionsAndEnvironment call for an entity at
\* height y over the column: footPos.y = position.y - 0.1
SampleEnvironment(y) ==
  /\ sampleFoot' = <<y - FootOffset>>
  /\ sampleReads' = EnvironmentReads(sampleColumn, WorldHeight, y - FootOffset)
  /\ UNCHANGED sampleColumn
  /\ UNCHANGED outsideSample

InitSample ==
  /\ ChunkManagerInit
  /\ GenIdle
  /\ PathIdle
  /\ MobIdle
  /\ BootIdle
  /\ RegenIdle
  /\ WalkIdle
  /\ PhysIdle
  /\ MeshIdle
  /\ SpawnIdle
  /\ sampleColumn \in SampleColumns
  /\ sampleFoot = <<>>
  /\ sampleReads = <<>>

SampleNext == \E y \in SampleYs : SampleEnvironment(y)

SpecSample == InitSample /\ [][SampleNext]_vars

\* C30: every y index the environment sampling reads lies in [0, maxHeight)
C30_ReadsInsideColumn ==
  \A n \in 1..Len(sampleReads) : sampleReads[n] \in Ys(WorldConfig)

====
